---- MODULE Spec2Model ----
(***************************************************************************)
(* Flight-route enrichment of the digital-signage dashboard (src/app.py):  *)
(* the persisted route cache, the 24 h negative-result suppression, the    *)
(* OAuth2 token cache, the upstream route fetch and the nearest-flights    *)
(* aggregators, run by the gunicorn sync workers of gunicorn_config.py.    *)
(*                                                                         *)
(* Conventions.  A Python str that the code indexes or filters (callsign,  *)
(* registration, ICAO24) is a sequence of one-character strings.  Airport  *)
(* codes and tokens are opaque strings; Python's None is the string        *)
(* NoneVal.  Time is in seconds: `now` stands for both datetime.now() and  *)
(* time.time().                                                            *)
(***************************************************************************)
EXTENDS Integers, Sequences, FiniteSets, TLC

\* ------------------------------------------------------------------ bounds
\* The clock advances in coarse steps of Coarse seconds and fine steps of
\* Fine seconds, up to MaxCoarse coarse steps and MaxFine fine steps.
Coarse == 86370
Fine == 30
MaxCoarse == 1
MaxFine == 1
\* Requests (nearest-flights, manual add) started in a run of Spec.
MaxRequests == 2
\* Aircraft in one live snapshot of the airplanes.live cycle.
MaxSnapshot == 1
\* Aircraft in the snapshot of the one cycle of SpecCycle.
MaxCycleSnapshot == 2
\* Direct calls of the cache functions in a run of SpecCache.
MaxCacheOps == 2
\* Calls that reach get_opensky_token in a run of SpecToken.
MaxTokenCalls == 2
\* Records in one snapshot of SpecRank.
MaxRankSnapshot == 6
MaxRaceOps == 4
MaxSlowSnapshot == 7

\* ------------------------------------------------------- program constants
HourSeconds == 3600
DaySeconds == 24 * HourSeconds
SuppressHours == 24
TokenMargin == 60
DefaultExpiresIn == 1800
DefaultCacheDays == 7
NearestAirplanesLive == 4
NearestOther == 5
NumWorkers == 2
GunicornTimeout == 120
RequestTimeout == 10

Workers == 1..NumWorkers

\* ----------------------------------------------------------------- strings
NoneVal == "<None>"

Falsy(x) == x = "" \/ x = NoneVal
Truthy(x) == ~Falsy(x)
\* A variant of `a or b` that never falls back to b.
PyFirst(a, b) == a

\* Python's `a or b` on str/None values.
PyOr(a, b) == IF Truthy(a) THEN a ELSE b

UpperLetters == {"A","B","C","D","E","F","G","H","I","J","K","L","M",
                 "N","O","P","Q","R","S","T","U","V","W","X","Y","Z"}
LowerLetters == {"a","b","c","d","e","f","g","h","i","j","k","l","m",
                 "n","o","p","q","r","s","t","u","v","w","x","y","z"}
\* str.isalpha on one character.
IsAlpha(c) == c \in UpperLetters \/ c \in LowerLetters

UpperOf == [c \in {"d","l","h","u","a","n","k","o","w"} |->
             CASE c = "d" -> "D" [] c = "l" -> "L" [] c = "h" -> "H"
               [] c = "u" -> "U" [] c = "a" -> "A" [] c = "n" -> "N"
               [] c = "k" -> "K" [] c = "o" -> "O" [] c = "w" -> "W"]
\* The text as typed, in the case it was typed in.
AsTyped(s) == s
\* str.upper, on the characters the model uses.
Upper(s) == [i \in 1..Len(s) |-> IF s[i] \in DOMAIN UpperOf THEN UpperOf[s[i]] ELSE s[i]]

RECURSIVE LStrip(_)
LStrip(s) == IF s # <<>> /\ Head(s) = " " THEN LStrip(Tail(s)) ELSE s
RECURSIVE RStrip(_)
RStrip(s) == IF s # <<>> /\ s[Len(s)] = " " THEN RStrip(SubSeq(s, 1, Len(s) - 1)) ELSE s
\* str.strip
Strip(s) == RStrip(LStrip(s))

\* s[:n]
Prefix(s, n) == SubSeq(s, 1, IF Len(s) < n THEN Len(s) ELSE n)

\* ''.join(filter(str.isalpha, s))
FilterAlpha(s) == SelectSeq(s, IsAlpha)

\* s.isalpha(): non-empty and every character a letter
AllAlpha(s) == s # <<>> /\ \A i \in 1..Len(s) : IsAlpha(s[i])

\* The airline-code fallback key of get_route_from_cache.
airline_code(callsign) == FilterAlpha(Prefix(callsign, 3))

\* ------------------------------------------------------------ route cache
\* datetime.isoformat() / datetime.fromisoformat(): the stored text parses
\* back to the instant it was made from; any other text does not parse.
isoformat(t) == [ok |-> TRUE, t |-> t]
\* A reading of last_seen that takes any value for a timestamp.
parses_anything(ts) == TRUE
parses(ts) == ts.ok
fromisoformat(ts) == ts.t

\* A variant of the age that counts whole hours.
TimedeltaHours(secs) == secs \div HourSeconds

\* timedelta.days: whole days, rounded towards minus infinity.
TimedeltaDays(secs) == secs \div DaySeconds

\* A cache is a function from a finite set of keys to entries
\* [from, to, last_seen, not_found]; the empty dict is <<>>.
EmptyCache == <<>>

Entry(f, t, ts, nf) == [from |-> f, to |-> t, last_seen |-> ts, not_found |-> nf]

LookupResult(f, t, v) == [from |-> f, to |-> t, valid |-> v]

\* A variant of the lookup whose fallback takes any entry of the same
\* airline, not only the one stored under the airline code itself.
get_route_from_cache_same_airline(callsign, cache, cache_days, t) ==
  IF callsign = <<>> THEN LookupResult("", "", FALSE)
  ELSE IF callsign \in DOMAIN cache THEN
    LET route == cache[callsign]
        age_days == TimedeltaDays(t - fromisoformat(route.last_seen))
    IN LookupResult(route.from, route.to, age_days < cache_days)
  ELSE IF \E k \in DOMAIN cache : airline_code(k) = airline_code(callsign) THEN
    LET route == cache[CHOOSE k \in DOMAIN cache : airline_code(k) = airline_code(callsign)]
    IN LookupResult(route.from, route.to, TRUE)
  ELSE LookupResult("", "", FALSE)

\* get_route_from_cache(callsign, cache, cache_days) evaluated at time t.
get_route_from_cache(callsign, cache, cache_days, t) ==
  IF callsign = <<>> THEN LookupResult("", "", FALSE)
  ELSE IF callsign \in DOMAIN cache THEN
    LET route == cache[callsign] IN
      IF parses(route.last_seen)
        THEN LET age_days == TimedeltaDays(t - fromisoformat(route.last_seen)) IN
               IF age_days < cache_days
                 THEN LookupResult(route.from, route.to, TRUE)
                 ELSE LookupResult(route.from, route.to, FALSE)
        ELSE LookupResult(route.from, route.to, TRUE)
  ELSE IF airline_code(callsign) # <<>> /\ airline_code(callsign) \in DOMAIN cache THEN
    LET route == cache[airline_code(callsign)] IN
      LookupResult(route.from, route.to, TRUE)
  ELSE LookupResult("", "", FALSE)

\* A variant of the suppression check that still suppresses at exactly 24 h.
skip_lookup_inclusive(callsign, cache, t) ==
  /\ callsign \in DOMAIN cache
  /\ cache[callsign].not_found
  /\ cache[callsign].last_seen.ok
  /\ (t - cache[callsign].last_seen.t) <= SuppressHours * HourSeconds

\* A variant of the suppression check without the 24-hour limit.
skip_lookup_forever(callsign, cache, t) ==
  /\ callsign \in DOMAIN cache
  /\ cache[callsign].not_found

\* The suppression check of get_flights_airplaneslive (skip_lookup).
skip_lookup(callsign, cache, t) ==
  /\ callsign \in DOMAIN cache
  /\ cache[callsign].not_found
  /\ parses(cache[callsign].last_seen)
  /\ (t - fromisoformat(cache[callsign].last_seen)) < SuppressHours * HourSeconds

\* A variant of the assignment that starts from an empty dict.
SetOnlyEntry(cache, callsign, e) == [k \in {callsign} |-> e]

\* cache[callsign] = {...}
SetEntry(cache, callsign, e) ==
  [k \in (DOMAIN cache) \cup {callsign} |-> IF k = callsign THEN e ELSE cache[k]]

\* save_flight_routes_cache: what the file holds afterwards.  open() may fail
\* (the file is left as it was) and json.dump may fail after open() has
\* truncated the file (a later load then yields {}); both are swallowed.
SaveOutcomes == {"ok", "open_failed", "write_failed"}

save_flight_routes_cache(cache, fileBefore, saveOut) ==
  CASE saveOut = "ok" -> cache
    [] saveOut = "open_failed" -> fileBefore
    [] saveOut = "write_failed" -> EmptyCache

\* A variant of update_route_cache that keeps the airports of the entry it
\* replaces where it is given none.
update_route_cache_carry_over(callsign, from_airport, to_airport, cache, not_found, t, fileBefore, saveOut) ==
  IF callsign = <<>>
    THEN [cache |-> cache, file |-> fileBefore, wrote |-> FALSE]
    ELSE LET old == IF callsign \in DOMAIN cache THEN cache[callsign]
                    ELSE Entry("", "", isoformat(t), FALSE)
             c2 == SetEntry(cache, callsign,
                     Entry(PyOr(from_airport, old.from), PyOr(to_airport, old.to),
                           isoformat(t), not_found))
         IN [cache |-> c2,
             file |-> save_flight_routes_cache(c2, fileBefore, saveOut),
             wrote |-> TRUE]

\* A variant of update_route_cache that takes the new entry back when it
\* cannot be saved.
update_route_cache_or_roll_back(callsign, from_airport, to_airport, cache, not_found, t, fileBefore, saveOut) ==
  IF callsign = <<>>
    THEN [cache |-> cache, file |-> fileBefore, wrote |-> FALSE]
    ELSE LET c2 == SetEntry(cache, callsign,
                     Entry(PyOr(from_airport, ""), PyOr(to_airport, ""), isoformat(t), not_found))
         IN [cache |-> IF saveOut = "ok" THEN c2 ELSE cache,
             file |-> save_flight_routes_cache(c2, fileBefore, saveOut),
             wrote |-> TRUE]

\* update_route_cache: the dict and the file afterwards.
update_route_cache(callsign, from_airport, to_airport, cache, not_found, t, fileBefore, saveOut) ==
  IF callsign = <<>>
    THEN [cache |-> cache, file |-> fileBefore, wrote |-> FALSE]
    ELSE LET c2 == SetEntry(cache, callsign,
                     Entry(PyOr(from_airport, ""), PyOr(to_airport, ""), isoformat(t), not_found))
         IN [cache |-> c2,
             file |-> save_flight_routes_cache(c2, fileBefore, saveOut),
             wrote |-> TRUE]

\* load_flight_routes_cache: a missing file gives {}.
load_flight_routes_cache(fileNow) == fileNow

\* ------------------------------------------------------------ OAuth2 token
\* Credentials: NoCred is the empty client_id/client_secret; the token
\* endpoint knows the pairs of ValidCreds and issues TokenOf for them.
NoCred == ""
Creds == {"credA", "credB"}
ValidCreds == {"credA"}
TokenOf(cred) == IF cred = "credA" THEN "tokA" ELSE "tokB"

\* _opensky_token_cache = {'token': None, 'expires_at': 0}
EmptyTokenCache == [token |-> NoneVal, expires_at |-> 0]

\* What the token endpoint can answer to a client-credentials request:
\* 200 with a token and a lifetime (expires_in may be absent), 200 without an
\* access_token, an error status, or no answer (timeout, connection error).
ExpiresIns == {90}

TokenOutcomes(cred) ==
  (IF cred \in ValidCreds
     THEN [kind : {"http"}, status : {200}, access_token : {TokenOf(cred)},
           has_expires_in : {TRUE}, expires_in : ExpiresIns]
          \cup {[kind |-> "http", status |-> 200, access_token |-> TokenOf(cred),
                 has_expires_in |-> FALSE, expires_in |-> 0],
                [kind |-> "http", status |-> 200, access_token |-> NoneVal,
                 has_expires_in |-> TRUE, expires_in |-> 90]}
     ELSE {[kind |-> "http", status |-> 401, access_token |-> NoneVal,
            has_expires_in |-> FALSE, expires_in |-> 0]})
  \cup {[kind |-> "http", status |-> 500, access_token |-> NoneVal,
         has_expires_in |-> FALSE, expires_in |-> 0],
        [kind |-> "exception", status |-> 0, access_token |-> NoneVal,
         has_expires_in |-> FALSE, expires_in |-> 0]}

\* The answers the aggregation cycle draws from: a token with a lifetime, or
\* a failure.
CycleTokenOutcomes(cred) ==
  {o \in TokenOutcomes(cred) :
     o.kind = "http" /\ o.status = 200 => o.has_expires_in /\ Truthy(o.access_token)}

\* The cached token is reused while it is set and time.time() < expires_at.
token_is_valid(tokc, t) == Truthy(tokc.token) /\ t < tokc.expires_at

\* A variant of get_opensky_token that caches the token for the whole
\* lifetime the server states, without the margin.
get_opensky_token_no_margin(tokc, t, tokOut) ==
  IF Truthy(tokc.token) /\ t < tokc.expires_at
    THEN [token |-> tokc.token, cache |-> tokc, requested |-> FALSE]
    ELSE IF tokOut.kind = "http" /\ tokOut.status = 200
      THEN [token |-> tokOut.access_token,
            cache |-> [token |-> tokOut.access_token,
                       expires_at |-> t + (IF tokOut.has_expires_in THEN tokOut.expires_in
                                           ELSE DefaultExpiresIn)],
            requested |-> TRUE]
      ELSE [token |-> NoneVal, cache |-> tokc, requested |-> TRUE]

\* A variant of get_opensky_token that hands out the expired token when the
\* refresh fails.
get_opensky_token_stale_on_failure(tokc, t, tokOut) ==
  IF token_is_valid(tokc, t)
    THEN [token |-> tokc.token, cache |-> tokc, requested |-> FALSE]
    ELSE IF tokOut.kind = "http" /\ tokOut.status = 200
      THEN [token |-> tokOut.access_token,
            cache |-> [token |-> tokOut.access_token,
                       expires_at |-> t + (IF tokOut.has_expires_in THEN tokOut.expires_in
                                           ELSE DefaultExpiresIn) - TokenMargin],
            requested |-> TRUE]
      ELSE [token |-> tokc.token, cache |-> tokc, requested |-> TRUE]

\* get_opensky_token at time t, the endpoint answering tokOut if asked:
\* the token returned, the cache afterwards, and whether a request was sent.
get_opensky_token(tokc, t, tokOut) ==
  IF token_is_valid(tokc, t)
    THEN [token |-> tokc.token, cache |-> tokc, requested |-> FALSE]
    ELSE IF tokOut.kind = "http" /\ tokOut.status = 200
      THEN LET expires_in == IF tokOut.has_expires_in THEN tokOut.expires_in
                             ELSE DefaultExpiresIn
           IN [token |-> tokOut.access_token,
               cache |-> [token |-> tokOut.access_token,
                          expires_at |-> t + expires_in - TokenMargin],
               requested |-> TRUE]
      ELSE [token |-> NoneVal, cache |-> tokc, requested |-> TRUE]

\* ------------------------------------------------------ upstream route fetch
\* What the flight-history API can answer: 200 with a list of flight records
\* (the code reads the last one), an error status, or nothing (timeout, an
\* unparseable body: any exception).
EmptyRecord == [estDepartureAirport |-> NoneVal, estArrivalAirport |-> ""]
FullRecord == [estDepartureAirport |-> "EDDF", estArrivalAirport |-> "LIML"]
PartialRecord == [estDepartureAirport |-> "EDDF", estArrivalAirport |-> NoneVal]
FlightRecords == {EmptyRecord, FullRecord, PartialRecord}
OldRecord == [estDepartureAirport |-> "KJFK", estArrivalAirport |-> "EGLL"]

RouteOutcomes ==
  [kind : {"http"}, status : {200}, flights : {<<>>}]
  \cup [kind : {"http"}, status : {200}, flights : {<<r>> : r \in FlightRecords}]
  \cup [kind : {"http"}, status : {200},
        flights : {<<OldRecord, EmptyRecord>>, <<OldRecord, FullRecord>>}]
  \cup [kind : {"http"}, status : {400, 401, 404, 429, 500}, flights : {<<>>}]
  \cup [kind : {"exception"}, status : {0}, flights : {<<>>}]

NoRoute == [dep |-> NoneVal, arr |-> NoneVal]

\* A variant of the response handling that reads the first record of the
\* list where the code reads the last.
route_of_first_flight(routeOut) ==
  IF routeOut.kind = "http" /\ routeOut.status = 200 /\ Len(routeOut.flights) > 0
    THEN LET first_flight == routeOut.flights[1]
             departure == first_flight.estDepartureAirport
             arrival == first_flight.estArrivalAirport
         IN IF Truthy(departure) \/ Truthy(arrival)
              THEN [dep |-> departure, arr |-> arrival]
              ELSE [dep |-> NoneVal, arr |-> NoneVal]
    ELSE [dep |-> NoneVal, arr |-> NoneVal]

\* A variant of the response handling that returns the fields of the last
\* record whatever they hold.
route_of_last_record(routeOut) ==
  IF routeOut.kind = "http" /\ routeOut.status = 200 /\ Len(routeOut.flights) > 0
    THEN [dep |-> routeOut.flights[Len(routeOut.flights)].estDepartureAirport,
          arr |-> routeOut.flights[Len(routeOut.flights)].estArrivalAirport]
    ELSE NoRoute

\* The response handling of fetch_route_from_opensky.
route_of_response(routeOut) ==
  IF routeOut.kind = "http" /\ routeOut.status = 200 /\ Len(routeOut.flights) > 0
    THEN LET latest_flight == routeOut.flights[Len(routeOut.flights)]
             departure == latest_flight.estDepartureAirport
             arrival == latest_flight.estArrivalAirport
         IN IF Truthy(departure) \/ Truthy(arrival)
              THEN [dep |-> departure, arr |-> arrival]
              ELSE NoRoute
    ELSE NoRoute

\* fetch_route_from_opensky(icao24, config) for a config [enabled, cred,
\* cache_days]: the route, the token cache afterwards, and the requests sent.
fetch_route_from_opensky(config, tokc, t, tokOut, routeOut) ==
  IF ~config.enabled
    THEN [route |-> NoRoute, tok |-> tokc, tokcall |-> FALSE, tokreq |-> FALSE,
          tokret |-> NoneVal, fetch |-> FALSE]
    ELSE LET auth == config.cred # NoCred
             g == get_opensky_token(tokc, t, tokOut)
         IN [route |-> route_of_response(routeOut),
             tok |-> IF auth THEN g.cache ELSE tokc,
             tokcall |-> auth,
             tokreq |-> auth /\ g.requested,
             tokret |-> IF auth THEN g.token ELSE NoneVal,
             fetch |-> TRUE]

\* ------------------------------------------------------ live aircraft feed
\* A coordinate or a distance of a feed record is <<>> when the field is
\* absent and <<v>> when it is present; distances are in 1/100 km.
PyNot(x) == x = <<>> \/ x = <<0>>

DLH123 == <<"D","L","H","1","2","3">>
Unknown == <<"U","n","k","n","o","w","n">>
DAIMC == <<"D","-","A","I","M","C">>

Aircraft(flight, has_r, r, hex, lat, lon, dst) ==
  [flight |-> flight, has_r |-> has_r, r |-> r, hex |-> hex,
   lat |-> lat, lon |-> lon, dst |-> dst]

\* The aircraft records the live feed can deliver in the aggregation cycle:
\* a padded callsign, a blank callsign without a registration and with an
\* empty one, no ICAO24, no position, a position on the prime meridian.
AC_dlh == Aircraft(DLH123 \o <<" ", " ">>, TRUE, DAIMC, "3C6444", <<47>>, <<15>>, <<1204>>)
AC_blank == Aircraft(<<" ", " ">>, FALSE, <<>>, "4b1806", <<47>>, <<15>>, <<310>>)
AC_noreg == Aircraft(<<>>, TRUE, <<>>, "4b1806", <<47>>, <<15>>, <<310>>)
AC_nohex == Aircraft(DLH123, TRUE, DAIMC, "", <<47>>, <<15>>, <<755>>)
AC_nopos == Aircraft(DLH123, TRUE, DAIMC, "3C6444", <<>>, <<15>>, <<80>>)
AC_meridian == Aircraft(<<"B","A","W","1">>, TRUE, <<"G","-","E","U","U","A">>, "400a01",
                        <<51>>, <<0>>, <<120>>)
AircraftKinds == {AC_dlh, AC_blank, AC_noreg, AC_nohex, AC_nopos, AC_meridian}

\* What the live-feed request can end in: a timeout or connection error, an
\* HTTP status with a body that is the JSON object {"ac": [...]} of `len`
\* aircraft records, or a body that is not JSON.  The records of the list are
\* read one per loop iteration and are drawn from AircraftKinds when read.
FeedOutcomes ==
  [kind : {"timeout", "connection_error"}, status : {0}, body : {"none"}, len : {0}]
  \cup [kind : {"http"}, status : {200}, body : {"json"}, len : 0..MaxSnapshot]
  \cup [kind : {"http"}, status : {200, 404, 500}, body : {"not_json"}, len : {0}]
  \cup [kind : {"http"}, status : {404, 500}, body : {"json"}, len : {1}]

\* A variant of raise_for_status that lets client errors through.
raise_for_server_error(status) == 500 <= status /\ status < 600

\* requests.Response.raise_for_status
raise_for_status(status) == 400 <= status /\ status < 600

\* The live-feed request of get_flights_airplaneslive raises (and the handler
\* answers from its except clauses) or yields the aircraft list.
feed_raises(feedOut) ==
  \/ feedOut.kind # "http"
  \/ raise_for_status(feedOut.status)
  \/ feedOut.body # "json"

\* str.lower on the ICAO24 values of the feed.
Lower(h) == IF h = "3C6444" THEN "3c6444" ELSE h

\* ------------------------------------------------------------ configuration
\* The dashboard configuration a request loads: opensky.enabled, the OpenSky
\* credentials and opensky.cache_days.
CacheDaysValues == {0, 1}
Configs == [enabled : BOOLEAN, cred : {NoCred, "credA"}, cache_days : CacheDaysValues]
NoConfig == [enabled |-> FALSE, cred |-> NoCred, cache_days |-> 0]

\* ------------------------------------------------------- route resolution
\* The callsign the loop body works with: the trimmed 'flight', or the
\* registration 'r' (default 'Unknown') when that is empty.
trimmed_callsign(aircraft) == Strip(aircraft.flight)

callsign_of(aircraft) ==
  IF trimmed_callsign(aircraft) = <<>>
    THEN (IF aircraft.has_r THEN aircraft.r ELSE Unknown)
    ELSE trimmed_callsign(aircraft)

\* Variants of the fetch condition: one that ignores the suppression, one
\* that refetches as soon as either airport is empty.
needs_fetch_unsuppressed(skip, from_airport, to_airport, is_valid) ==
  (Falsy(from_airport) /\ Falsy(to_airport)) \/ ~is_valid

needs_fetch_either_empty(skip, from_airport, to_airport, is_valid) ==
  ~skip /\ ((Falsy(from_airport) \/ Falsy(to_airport)) \/ ~is_valid)

\* The condition under which the loop body turns to OpenSky.
needs_fetch(skip, from_airport, to_airport, is_valid) ==
  ~skip /\ ((Falsy(from_airport) /\ Falsy(to_airport)) \/ ~is_valid)

\* A variant of the fetch decision that does not look at the ICAO24.
will_fetch_without_icao24(aircraft, cache, config, t) ==
  LET callsign == callsign_of(aircraft)
      lk == get_route_from_cache(callsign, cache, config.cache_days, t)
  IN /\ needs_fetch(skip_lookup(callsign, cache, t), lk.from, lk.to, lk.valid)
     /\ config.enabled

\* Whether this pass of the loop body calls fetch_route_from_opensky.
will_fetch(aircraft, cache, config, t) ==
  LET callsign == callsign_of(aircraft)
      lk == get_route_from_cache(callsign, cache, config.cache_days, t)
  IN /\ needs_fetch(skip_lookup(callsign, cache, t), lk.from, lk.to, lk.valid)
     /\ Truthy(Lower(aircraft.hex))
     /\ config.enabled

\* One pass of the loop body of get_flights_airplaneslive for one aircraft
\* that has a position, from the cache lookup to the appended flight.
resolve(aircraft, cache, fileBefore, tokc, config, t, tokOut, routeOut, saveOut) ==
  LET callsign == callsign_of(aircraft)
      lk == get_route_from_cache(callsign, cache, config.cache_days, t)
      skip == skip_lookup(callsign, cache, t)
      call == will_fetch(aircraft, cache, config, t)
      fr == fetch_route_from_opensky(config, tokc, t, tokOut, routeOut)
      found == call /\ (Truthy(fr.route.dep) \/ Truthy(fr.route.arr))
      from_airport == IF found THEN PyOr(fr.route.dep, lk.from) ELSE lk.from
      to_airport == IF found THEN PyOr(fr.route.arr, lk.to) ELSE lk.to
      upd == IF found
               THEN update_route_cache(callsign, from_airport, to_airport, cache, FALSE,
                                       t, fileBefore, saveOut)
               ELSE update_route_cache(callsign, "", "", cache, TRUE, t, fileBefore, saveOut)
  IN [callsign |-> callsign,
      looked |-> callsign # <<>>,
      cached |-> lk,
      skip |-> skip,
      fetch |-> call /\ fr.fetch,
      tokcall |-> call /\ fr.tokcall,
      tokreq |-> call /\ fr.tokreq,
      tokret |-> IF call THEN fr.tokret ELSE NoneVal,
      up |-> IF call THEN fr.route ELSE NoRoute,
      wrote |-> call /\ upd.wrote,
      wrote_nf |-> call /\ upd.wrote /\ ~found,
      cache |-> IF call THEN upd.cache ELSE cache,
      file |-> IF call THEN upd.file ELSE fileBefore,
      tok |-> IF call THEN fr.tok ELSE tokc,
      from |-> from_airport,
      to |-> to_airport]

\* round(x, 1) of a distance given in 1/100 km, in 1/10 km (ties to even).
Round1(x) ==
  LET q == x \div 10
      r == x % 10
  IN IF r < 5 THEN q
     ELSE IF r > 5 THEN q + 1
     ELSE IF q % 2 = 0 THEN q ELSE q + 1

\* round(aircraft.get('dst', 0), 1)
distance_of(aircraft) == IF aircraft.dst = <<>> THEN 0 ELSE Round1(aircraft.dst[1])

Flight(aircraft, callsign, from_airport, to_airport) ==
  [callsign |-> callsign, hex |-> aircraft.hex, distance |-> distance_of(aircraft),
   from |-> from_airport, to |-> to_airport]

\* list.sort(key=lambda x: x['distance']): a stable sort, by insertion.
RECURSIVE InsertByDistance(_, _)
InsertByDistance(sorted, x) ==
  IF sorted = <<>> THEN <<x>>
  ELSE IF sorted[Len(sorted)].distance <= x.distance THEN Append(sorted, x)
  ELSE Append(InsertByDistance(SubSeq(sorted, 1, Len(sorted) - 1), x), sorted[Len(sorted)])

RECURSIVE SortByDistance(_)
SortByDistance(fl) ==
  IF fl = <<>> THEN <<>>
  ELSE InsertByDistance(SortByDistance(SubSeq(fl, 1, Len(fl) - 1)), fl[Len(fl)])

\* nearby_flights[:n]
nearest(fl, n) == SubSeq(SortByDistance(fl), 1, IF Len(fl) < n THEN Len(fl) ELSE n)

\* -------------------------------------------------------------------- state
VARIABLES
  now,             \* the wall clock, in seconds
  file,            \* flight_routes_cache.json, as load_flight_routes_cache reads it
  tok,             \* _opensky_token_cache of each worker process
  pc,              \* each worker: "idle", "loop" inside get_flights_airplaneslive,
                   \* "loaded" with a cache dict in hand, "saving" between open() and json.dump
  route_cache,     \* the dict the running handler loaded (route_cache)
  cfg,             \* the configuration the running handler loaded (config)
  aircraft_list,   \* how many aircraft of the snapshot are still to be processed
  nearby_flights,  \* the flights appended so far
  nreq,            \* requests started so far
  ev,              \* what the last step did (observation only)
  nf_written,      \* history: the last not_found write of a resolution
  issued,          \* history: per worker, the last answer 200 of the token endpoint
  updated,         \* history: the last update_route_cache call on the cache functions
                   \* or of the manual add
  feed_records,    \* the records the live feed holds for the ranking
  before_store,    \* per worker: what the file held when its store in progress opened it
  fetched          \* history: per worker, the callsigns its running cycle fetched a route for

vars == <<now, file, tok, pc, route_cache, cfg, aircraft_list, nearby_flights,
          nreq, ev, nf_written, issued, updated, feed_records, before_store, fetched>>

NoLookup == LookupResult("", "", FALSE)

\* ev records, for the step just taken: the handler (op) and worker (w);
\* for a resolution whether the trimmed callsign was empty (blank), the cache
\* key used (key), whether the cache was consulted under it (looked), whether
\* a flight-history request (fetch) and a token request (tokreq) were sent,
\* whether get_opensky_token was called (tokcall) and what it returned
\* (tokret), what fetch_route_from_opensky returned (up), whether an entry
\* was written (wrote, wrote_nf) and the route returned (ret); for a handler
\* that answered, the answer (responded, raised, flights).  It also keeps
\* what the step started from: the aircraft record (aircraft), the handler's
\* cache dict (cache0) and the cache file (file0) before the step, and the
\* answers of the live feed (feed) and of the flight-history API (route_out).
\* For a direct call of the cache functions it keeps the cache_days passed
\* (days) and the two verdicts: fresh (valid) and suppressed (skip); for a
\* call of the token functions, the history `issued` before the call
\* (issued0) and the credentials the call was made with (cred); for a ranked
\* snapshot, the provider and the snapshot; for a resolution, the callsigns
\* the cycle had fetched a route for before it (fetched0).
NoAircraft == Aircraft(<<>>, FALSE, <<>>, "", <<>>, <<>>, <<>>)
NoFeed == [kind |-> "none", status |-> 0, body |-> "none", len |-> 0]
NoRouteAnswer == [kind |-> "exception", status |-> 0, flights |-> <<>>]

NotIssued == [set |-> FALSE, at |-> 0, expires_in |-> 0, token |-> NoneVal]

NoAnswer == [kind |-> "exception", status |-> 0, access_token |-> NoneVal,
             has_expires_in |-> FALSE, expires_in |-> 0]

NoEvent ==
  [op |-> "none", w |-> 0, blank |-> FALSE, key |-> <<>>, looked |-> FALSE,
   fetch |-> FALSE, tokcall |-> FALSE, tokreq |-> FALSE, tokret |-> NoneVal,
   up |-> NoRoute, wrote |-> FALSE, wrote_nf |-> FALSE, ret |-> <<"", "">>,
   feed_failed |-> FALSE, responded |-> FALSE, raised |-> FALSE, flights |-> <<>>,
   aircraft |-> NoAircraft, cache0 |-> EmptyCache, file0 |-> EmptyCache,
   feed |-> NoFeed, route_out |-> NoRouteAnswer,
   valid |-> FALSE, skip |-> FALSE, days |-> 0, issued0 |-> NotIssued,
   provider |-> "", snapshot |-> <<>>,
   tok_out |-> NoAnswer, tok0 |-> EmptyTokenCache, save_out |-> "ok",
   cred |-> NoCred, fetched0 |-> {}]

\* The answers a step draws from: those of the collaborator when the step
\* reaches it, one placeholder when it does not.
TokenAnswers(asked, cred) == IF asked THEN TokenOutcomes(cred) ELSE {NoAnswer}
CycleTokenAnswers(asked, cred) == IF asked THEN CycleTokenOutcomes(cred) ELSE {NoAnswer}
RouteAnswers(asked) == IF asked THEN RouteOutcomes ELSE {NoRouteAnswer}
SaveAnswers(asked) == IF asked THEN SaveOutcomes ELSE {"ok"}

NeverWritten == [set |-> FALSE, key |-> <<>>, at |-> 0]

NeverUpdated == [set |-> FALSE, key |-> <<>>, from |-> "", to |-> "",
                 not_found |-> FALSE, at |-> 0]

\* The history of the token endpoint's last answer, after a get_opensky_token
\* call that sent a request and got tokOut.
issued_after(old, requested, tokOut, t) ==
  IF requested /\ tokOut.kind = "http" /\ tokOut.status = 200
    THEN [set |-> TRUE, at |-> t,
          expires_in |-> IF tokOut.has_expires_in THEN tokOut.expires_in ELSE DefaultExpiresIn,
          token |-> tokOut.access_token]
    ELSE old

Init ==
  /\ now = 0
  /\ file = EmptyCache
  /\ tok = [w \in Workers |-> EmptyTokenCache]
  /\ pc = [w \in Workers |-> "idle"]
  /\ route_cache = [w \in Workers |-> EmptyCache]
  /\ cfg = [w \in Workers |-> NoConfig]
  /\ aircraft_list = [w \in Workers |-> 0]
  /\ nearby_flights = [w \in Workers |-> <<>>]
  /\ nreq = 0
  /\ ev = NoEvent
  /\ nf_written = NeverWritten
  /\ issued = [w \in Workers |-> NotIssued]
  /\ updated = NeverUpdated
  /\ feed_records = <<>>
  /\ before_store = [w \in Workers |-> EmptyCache]
  /\ fetched = [w \in Workers |-> {}]

MaxTime == MaxCoarse * Coarse + MaxFine * Fine

\* Time passes.  A fine step can fall anywhere, also inside a running
\* handler; a coarse step falls between requests, since gunicorn ends a
\* worker whose request runs longer than `timeout`.
Tick ==
  /\ \E d \in {Fine, Coarse} :
       /\ now + d <= MaxTime
       /\ d = Fine => (now % Coarse) + d <= MaxFine * Fine
       /\ d = Coarse => \A w \in Workers : pc[w] = "idle"
       /\ now' = now + d
  /\ ev' = NoEvent
  /\ UNCHANGED <<file, tok, pc, route_cache, cfg, aircraft_list, nearby_flights,
                 nreq, nf_written, issued, updated, feed_records, before_store, fetched>>

\* get_nearest_flights -> get_flights_airplaneslive, up to the for loop: the
\* configuration and the route cache are loaded and the live feed is asked.
\* A failed feed request ends the handler with an empty flight list.
StartNearestFlights(w) ==
  /\ pc[w] = "idle"
  /\ nreq < MaxRequests
  /\ nreq' = nreq + 1
  /\ \E config \in Configs, feedOut \in FeedOutcomes :
       IF feed_raises(feedOut)
         THEN /\ ev' = [NoEvent EXCEPT !.op = "start", !.w = w, !.feed_failed = TRUE,
                                       !.responded = TRUE, !.raised = FALSE,
                                       !.flights = <<>>, !.file0 = file,
                                       !.feed = feedOut]
              /\ UNCHANGED <<pc, route_cache, cfg, aircraft_list, nearby_flights>>
         ELSE /\ pc' = [pc EXCEPT ![w] = "loop"]
              /\ route_cache' = [route_cache EXCEPT ![w] = load_flight_routes_cache(file)]
              /\ cfg' = [cfg EXCEPT ![w] = config]
              /\ aircraft_list' = [aircraft_list EXCEPT ![w] = feedOut.len]
              /\ nearby_flights' = [nearby_flights EXCEPT ![w] = <<>>]
              /\ ev' = [NoEvent EXCEPT !.op = "start", !.w = w, !.file0 = file,
                                       !.feed = feedOut]
  /\ fetched' = [fetched EXCEPT ![w] = {}]
  /\ UNCHANGED <<now, file, tok, nf_written, issued, updated, feed_records, before_store>>

\* One iteration of the for loop over an aircraft without lat or lon: continue.
SkipAircraft(w) ==
  /\ pc[w] = "loop"
  /\ aircraft_list[w] > 0
  /\ \E aircraft \in AircraftKinds :
       /\ PyNot(aircraft.lat) \/ PyNot(aircraft.lon)
       /\ ev' = [NoEvent EXCEPT !.op = "skip", !.w = w, !.aircraft = aircraft]
  /\ aircraft_list' = [aircraft_list EXCEPT ![w] = @ - 1]
  /\ UNCHANGED <<now, file, tok, pc, route_cache, cfg, nearby_flights, nreq,
                 nf_written, issued, updated, feed_records, before_store, fetched>>

\* One iteration of the for loop over an aircraft with a position: the route
\* is resolved (cache, suppression, OpenSky, cache update) and the flight is
\* appended.
ResolveAircraft(w) ==
  /\ pc[w] = "loop"
  /\ aircraft_list[w] > 0
  /\ \E aircraft \in AircraftKinds :
       /\ ~(PyNot(aircraft.lat) \/ PyNot(aircraft.lon))
       /\ \E tokOut \in CycleTokenAnswers(will_fetch(aircraft, route_cache[w], cfg[w], now)
                                            /\ cfg[w].cred # NoCred
                                            /\ ~token_is_valid(tok[w], now), cfg[w].cred),
             routeOut \in RouteAnswers(will_fetch(aircraft, route_cache[w], cfg[w], now)),
             saveOut \in SaveAnswers(will_fetch(aircraft, route_cache[w], cfg[w], now)
                                     /\ callsign_of(aircraft) # <<>>) :
            \E r \in {resolve(aircraft, route_cache[w], file, tok[w], cfg[w], now,
                              tokOut, routeOut, saveOut)} :
               /\ route_cache' = [route_cache EXCEPT ![w] = r.cache]
               /\ file' = r.file
               /\ tok' = [tok EXCEPT ![w] = r.tok]
               /\ nearby_flights' = [nearby_flights EXCEPT ![w] =
                                       Append(@, Flight(aircraft, r.callsign, r.from, r.to))]
               /\ nf_written' = IF r.wrote_nf
                                  THEN [set |-> TRUE, key |-> r.callsign, at |-> now]
                                  ELSE nf_written
               /\ issued' = [issued EXCEPT ![w] = issued_after(@, r.tokreq, tokOut, now)]
               /\ fetched' = [fetched EXCEPT ![w] = IF r.fetch THEN @ \cup {r.callsign} ELSE @]
               /\ ev' = [NoEvent EXCEPT !.op = "resolve", !.w = w,
                                        !.blank = (trimmed_callsign(aircraft) = <<>>),
                                        !.key = r.callsign,
                                        !.looked = r.looked, !.fetch = r.fetch,
                                        !.tokcall = r.tokcall, !.tokreq = r.tokreq,
                                        !.tokret = r.tokret, !.up = r.up,
                                        !.wrote = r.wrote, !.wrote_nf = r.wrote_nf,
                                        !.ret = <<r.from, r.to>>,
                                        !.aircraft = aircraft,
                                        !.cache0 = route_cache[w], !.file0 = file,
                                        !.route_out = routeOut, !.save_out = saveOut,
                                        !.fetched0 = fetched[w]]
  /\ aircraft_list' = [aircraft_list EXCEPT ![w] = @ - 1]
  /\ UNCHANGED <<now, pc, cfg, nreq, updated, feed_records, before_store>>

\* The end of get_flights_airplaneslive: sort by distance, keep the nearest 4,
\* answer.  The handler's locals are gone afterwards.
FinishNearestFlights(w) ==
  /\ pc[w] = "loop"
  /\ aircraft_list[w] = 0
  /\ ev' = [NoEvent EXCEPT !.op = "finish", !.w = w, !.responded = TRUE,
                           !.flights = nearest(nearby_flights[w], NearestAirplanesLive)]
  /\ pc' = [pc EXCEPT ![w] = "idle"]
  /\ route_cache' = [route_cache EXCEPT ![w] = EmptyCache]
  /\ cfg' = [cfg EXCEPT ![w] = NoConfig]
  /\ nearby_flights' = [nearby_flights EXCEPT ![w] = <<>>]
  /\ fetched' = [fetched EXCEPT ![w] = {}]
  /\ UNCHANGED <<now, file, tok, aircraft_list, nreq, nf_written, issued, updated,
                 feed_records, before_store>>

\* add_flight_route: the callsign and airports of the request body, trimmed
\* and upper-cased; rejected with 400 when the callsign or both airports are
\* empty, else written through update_route_cache on a freshly loaded cache.
ManualCallsigns == {<<>>, <<" ","d","l","h","1","2","3">>}
UpperAirport(a) == IF a = "eddf" THEN "EDDF" ELSE a
ManualFroms == {"", "eddf"}
ManualTos == {"", "LIML"}

add_flight_route(w) ==
  /\ pc[w] = "idle"
  /\ nreq < MaxRequests
  /\ nreq' = nreq + 1
  /\ \E c \in ManualCallsigns, f \in ManualFroms, t \in ManualTos :
     \E saveOut \in SaveAnswers(Strip(c) # <<>> /\ (f # "" \/ t # "")) :
       LET callsign == Upper(Strip(c))
           from_airport == UpperAirport(f)
           to_airport == UpperAirport(t)
           upd == update_route_cache(callsign, from_airport, to_airport,
                                     load_flight_routes_cache(file), FALSE, now, file, saveOut)
       IN IF callsign = <<>> \/ (Falsy(from_airport) /\ Falsy(to_airport))
            THEN /\ file' = file
                 /\ ev' = [NoEvent EXCEPT !.op = "add", !.w = w, !.key = callsign,
                                          !.responded = TRUE, !.file0 = file]
                 /\ updated' = updated
            ELSE /\ file' = upd.file
                 /\ ev' = [NoEvent EXCEPT !.op = "add", !.w = w, !.key = callsign,
                                          !.wrote = upd.wrote,
                                          !.ret = <<from_airport, to_airport>>,
                                          !.responded = TRUE, !.file0 = file,
                                          !.save_out = saveOut]
                 /\ updated' = [set |-> TRUE, key |-> callsign, from |-> from_airport,
                                 to |-> to_airport, not_found |-> FALSE, at |-> now]
  /\ UNCHANGED <<now, tok, pc, route_cache, cfg, aircraft_list, nearby_flights,
                 nf_written, issued, feed_records, before_store, fetched>>

\* test_opensky_api: with credentials in the request, a token is asked of
\* get_opensky_token; without a token the handler answers 401.
test_opensky_api(w) ==
  /\ pc[w] = "idle"
  /\ nreq' = nreq + 1
  /\ \E cred \in Creds : \E tokOut \in TokenAnswers(~token_is_valid(tok[w], now), cred) :
       \E g \in {get_opensky_token(tok[w], now, tokOut)} :
         /\ tok' = [tok EXCEPT ![w] = g.cache]
         /\ issued' = [issued EXCEPT ![w] = issued_after(@, g.requested, tokOut, now)]
         /\ ev' = [NoEvent EXCEPT !.op = "test", !.w = w,
                                  !.tokcall = TRUE, !.tokreq = g.requested,
                                  !.tokret = g.token, !.responded = TRUE,
                                  !.issued0 = issued[w],
                                  !.tok_out = tokOut, !.tok0 = tok[w],
                                  !.cred = cred]
  /\ UNCHANGED <<now, file, pc, route_cache, cfg, aircraft_list, nearby_flights,
                 nf_written, updated, feed_records, before_store, fetched>>

\* No request is being served.
Quiet == \A v \in Workers : pc[v] = "idle"

\* The route-enrichment system: the nearest-flights cycle of airplanes.live
\* and the manual add, served by either worker, one request at a time (the
\* display polls the endpoint again only after the answer).
Next ==
  \/ Tick
  \/ \E w \in Workers : Quiet /\ StartNearestFlights(w)
  \/ \E w \in Workers : SkipAircraft(w)
  \/ \E w \in Workers : ResolveAircraft(w)
  \/ \E w \in Workers : FinishNearestFlights(w)
  \/ \E w \in Workers : Quiet /\ add_flight_route(w)

Spec == Init /\ [][Next]_vars

\* ------------------------------------------------- the cache functions alone
\* update_route_cache, get_route_from_cache and the suppression check called
\* directly on one cache dict (that of worker 1), at any time and with any
\* arguments of the sets below.
UAL == <<"U","A","L">>
UAL123 == <<"U","A","L","1","2","3">>
UAL9999 == <<"U","A","L","9","9","9","9">>
A1B23 == <<"A","1","B","2","3">>
UpdateKeys == {<<>>, UAL, UAL123, <<"A">>, <<"A","B">>}
LookupKeys == {<<>>, UAL, UAL123, UAL9999, A1B23}
AirportPairs == {<<"", "">>, <<"KJFK", "EGLL">>, <<"KJFK", "">>}
LookupCacheDays == {0, 1, DefaultCacheDays}

CallUpdateRouteCache ==
  /\ nreq < MaxCacheOps
  /\ nreq' = nreq + 1
  /\ \E callsign \in UpdateKeys, pair \in AirportPairs, not_found \in BOOLEAN :
     \E saveOut \in SaveAnswers(callsign # <<>>) :
     \E upd \in {update_route_cache(callsign, pair[1], pair[2], route_cache[1], not_found,
                                     now, file, saveOut)} :
       /\ route_cache' = [route_cache EXCEPT ![1] = upd.cache]
       /\ file' = upd.file
       /\ updated' = IF upd.wrote
                       THEN [set |-> TRUE, key |-> callsign, from |-> pair[1],
                             to |-> pair[2], not_found |-> not_found, at |-> now]
                       ELSE updated
       /\ ev' = [NoEvent EXCEPT !.op = "update", !.w = 1, !.key = callsign,
                                !.wrote = upd.wrote, !.wrote_nf = upd.wrote /\ not_found,
                                !.ret = pair, !.cache0 = route_cache[1], !.file0 = file,
                                !.save_out = saveOut]
  /\ UNCHANGED <<now, tok, pc, cfg, aircraft_list, nearby_flights, nf_written, issued,
                 feed_records, before_store, fetched>>

CallLookup ==
  /\ nreq < MaxCacheOps
  /\ nreq' = nreq + 1
  /\ \E callsign \in LookupKeys, cache_days \in LookupCacheDays :
     \E lk \in {get_route_from_cache(callsign, route_cache[1], cache_days, now)} :
       ev' = [NoEvent EXCEPT !.op = "lookup", !.w = 1, !.key = callsign,
                             !.looked = TRUE, !.ret = <<lk.from, lk.to>>,
                             !.valid = lk.valid, !.days = cache_days,
                             !.skip = skip_lookup(callsign, route_cache[1], now),
                             !.cache0 = route_cache[1], !.file0 = file]
  /\ UNCHANGED <<now, file, tok, pc, route_cache, cfg, aircraft_list, nearby_flights,
                 nf_written, issued, updated, feed_records, before_store, fetched>>

NextCache ==
  \/ Tick
  \/ CallUpdateRouteCache
  \/ CallLookup

SpecCache == Init /\ [][NextCache]_vars

\* ------------------------------------------- one cycle over a longer snapshot
\* One nearest-flights request of worker 1 whose snapshot holds up to
\* MaxCycleSnapshot aircraft, which may carry the same callsign: the loop
\* resolves them one after the other against the dict loaded at the start.
StartCycle ==
  /\ pc[1] = "idle" /\ nreq = 0
  /\ nreq' = nreq + 1
  /\ \E config \in Configs, len \in 0..MaxCycleSnapshot :
       /\ pc' = [pc EXCEPT ![1] = "loop"]
       /\ route_cache' = [route_cache EXCEPT ![1] = load_flight_routes_cache(file)]
       /\ cfg' = [cfg EXCEPT ![1] = config]
       /\ aircraft_list' = [aircraft_list EXCEPT ![1] = len]
       /\ nearby_flights' = [nearby_flights EXCEPT ![1] = <<>>]
       /\ ev' = [NoEvent EXCEPT !.op = "start", !.w = 1, !.file0 = file,
                                !.feed = [kind |-> "http", status |-> 200,
                                          body |-> "json", len |-> len]]
  /\ fetched' = [fetched EXCEPT ![1] = {}]
  /\ UNCHANGED <<now, file, tok, nf_written, issued, updated, feed_records, before_store>>

NextCycle ==
  \/ StartCycle
  \/ SkipAircraft(1)
  \/ ResolveAircraft(1)
  \/ FinishNearestFlights(1)

SpecCycle == Init /\ [][NextCycle]_vars

\* ------------------------------------------- a cache file written elsewhere
\* The cache file is plain JSON on disk: one written by hand or by another
\* program can hold entries whose last_seen is missing or is not ISO text.
\* NoTimestamp stands for both: 'last_seen' in route is false, or
\* fromisoformat raises and the bare except swallows it.
NoTimestamp == [ok |-> FALSE, t |-> 0]
LegacyEntries ==
  {Entry(pair[1], pair[2], ts, nf) :
     pair \in AirportPairs, ts \in {NoTimestamp, isoformat(0)}, nf \in BOOLEAN}
LegacyFiles == UNION {[{k} -> LegacyEntries] : k \in {UAL, UAL123}}

\* load_flight_routes_cache of such a file.
LoadLegacyCache ==
  /\ nreq < MaxCacheOps
  /\ nreq' = nreq + 1
  /\ \E f \in LegacyFiles :
       /\ file' = f
       /\ route_cache' = [route_cache EXCEPT ![1] = load_flight_routes_cache(f)]
       /\ ev' = [NoEvent EXCEPT !.op = "load", !.w = 1, !.file0 = file]
  /\ UNCHANGED <<now, tok, pc, cfg, aircraft_list, nearby_flights, nf_written, issued,
                 updated, feed_records, before_store, fetched>>

NextLegacy ==
  \/ Tick
  \/ LoadLegacyCache
  \/ CallLookup

SpecLegacy == Init /\ [][NextLegacy]_vars

\* ------------------------------------------- the cache file under two workers
\* Two worker processes that each load the cache file into a dict of their
\* own, set entries in it and store it.  save_flight_routes_cache is not
\* atomic: open(file, 'w') truncates the file and json.dump fills it
\* afterwards, and nothing locks the file, so the other worker can load or
\* open it in between.  A truncated or partly written file does not parse
\* and load_flight_routes_cache answers {} for it.
RaceKeys == {UAL, DLH123}

\* The characters the keys of a mapping take in the file.
RECURSIVE KeyChars(_)
KeyChars(keys) ==
  IF keys = {} THEN 0
  ELSE LET k == CHOOSE x \in keys : TRUE IN Len(k) + KeyChars(keys \ {k})

\* The JSON text of mapping a is longer than that of mapping b; the entries
\* written here differ in their key only.
LongerText(a, b) ==
  \/ Cardinality(DOMAIN a) > Cardinality(DOMAIN b)
  \/ /\ Cardinality(DOMAIN a) = Cardinality(DOMAIN b)
     /\ KeyChars(DOMAIN a) > KeyChars(DOMAIN b)

\* What the file holds after json.dump wrote the text of `cache` from offset
\* 0 into a file that holds `content` (what another process wrote since this
\* one's open emptied it): the text of cache, followed by the rest of the
\* content where that is longer, which does not parse.
written_over(content, cache) ==
  IF LongerText(content, cache) THEN EmptyCache ELSE cache

\* route_cache = load_flight_routes_cache() at the start of a handler.
LoadCache(w) ==
  /\ pc[w] = "idle"
  /\ nreq < MaxRaceOps
  /\ nreq' = nreq + 1
  /\ route_cache' = [route_cache EXCEPT ![w] = load_flight_routes_cache(file)]
  /\ pc' = [pc EXCEPT ![w] = "loaded"]
  /\ ev' = [NoEvent EXCEPT !.op = "load", !.w = w, !.file0 = file]
  /\ UNCHANGED <<now, file, tok, cfg, aircraft_list, nearby_flights, nf_written, issued,
                 updated, feed_records, before_store, fetched>>

\* update_route_cache up to the open() of save_flight_routes_cache: the
\* entry is set in the worker's dict and the file is opened for writing,
\* which empties it; when open() fails the file stays as it is.
StoreEntry(w) ==
  /\ pc[w] = "loaded"
  /\ nreq < MaxRaceOps
  /\ nreq' = nreq + 1
  /\ \E callsign \in RaceKeys, opened \in BOOLEAN :
     \E upd \in {update_route_cache(callsign, "KJFK", "EGLL", route_cache[w], FALSE,
                                     now, file, "ok")} :
       /\ route_cache' = [route_cache EXCEPT ![w] = upd.cache]
       /\ file' = IF opened THEN EmptyCache ELSE file
       /\ before_store' = [before_store EXCEPT ![w] = IF opened THEN file ELSE @]
       /\ pc' = [pc EXCEPT ![w] = IF opened THEN "saving" ELSE "loaded"]
       /\ ev' = [NoEvent EXCEPT !.op = "store", !.w = w, !.key = callsign,
                                !.wrote = upd.wrote, !.ret = <<"KJFK", "EGLL">>,
                                !.cache0 = route_cache[w], !.file0 = file,
                                !.save_out = IF opened THEN "ok" ELSE "open_failed"]
  /\ UNCHANGED <<now, tok, cfg, aircraft_list, nearby_flights, nf_written, issued,
                 updated, feed_records, fetched>>

\* json.dump(cache, f) and the close of the file: the file holds the
\* worker's whole dict, or is unreadable when the write fails or runs over a
\* longer text that the other worker wrote in the meantime.
DumpCache(w) ==
  /\ pc[w] = "saving"
  /\ \E saveOut \in {"ok", "write_failed"} :
       /\ file' = save_flight_routes_cache(written_over(file, route_cache[w]), file, saveOut)
       /\ ev' = [NoEvent EXCEPT !.op = "dump", !.w = w, !.wrote = TRUE,
                                !.cache0 = route_cache[w], !.file0 = file,
                                !.save_out = saveOut]
  /\ pc' = [pc EXCEPT ![w] = "loaded"]
  /\ UNCHANGED <<now, tok, route_cache, cfg, aircraft_list, nearby_flights, nreq,
                 nf_written, issued, updated, feed_records, before_store, fetched>>

\* The handler returns and its dict is gone.
ReturnFromHandler(w) ==
  /\ pc[w] = "loaded"
  /\ route_cache' = [route_cache EXCEPT ![w] = EmptyCache]
  /\ pc' = [pc EXCEPT ![w] = "idle"]
  /\ ev' = [NoEvent EXCEPT !.op = "return", !.w = w]
  /\ UNCHANGED <<now, file, tok, cfg, aircraft_list, nearby_flights, nreq, nf_written,
                 issued, updated, feed_records, before_store, fetched>>

NextRace ==
  \/ Tick
  \/ \E w \in Workers : LoadCache(w)
  \/ \E w \in Workers : StoreEntry(w)
  \/ \E w \in Workers : DumpCache(w)
  \/ \E w \in Workers : ReturnFromHandler(w)

SpecRace == Init /\ [][NextRace]_vars

\* ------------------------------------------------ one aircraft kept in view
\* The display polls the nearest-flights endpoint again and again while the
\* same aircraft (callsign DLH123, with an ICAO24) stays in range and the
\* OpenSky lookup is enabled.  One step is one whole request served by worker
\* 1: load the cache file, resolve the aircraft, answer.
ObserveAircraft ==
  /\ \A w \in Workers : pc[w] = "idle"
  /\ \E config \in {c \in Configs : c.enabled} :
     \E cache \in {load_flight_routes_cache(file)} :
     \E tokOut \in CycleTokenAnswers(will_fetch(AC_dlh, cache, config, now)
                                       /\ config.cred # NoCred
                                       /\ ~token_is_valid(tok[1], now), config.cred),
        routeOut \in RouteAnswers(will_fetch(AC_dlh, cache, config, now)),
        saveOut \in SaveAnswers(will_fetch(AC_dlh, cache, config, now)) :
     \E r \in {resolve(AC_dlh, cache, file, tok[1], config, now, tokOut, routeOut, saveOut)} :
       /\ file' = r.file
       /\ tok' = [tok EXCEPT ![1] = r.tok]
       /\ cfg' = [cfg EXCEPT ![1] = config]
       /\ nf_written' = IF r.wrote_nf
                          THEN [set |-> TRUE, key |-> r.callsign, at |-> now]
                          ELSE nf_written
       /\ issued' = [issued EXCEPT ![1] = issued_after(@, r.tokreq, tokOut, now)]
       /\ ev' = [NoEvent EXCEPT !.op = "observe", !.w = 1, !.key = r.callsign,
                                !.looked = r.looked, !.fetch = r.fetch,
                                !.tokcall = r.tokcall, !.tokreq = r.tokreq,
                                !.tokret = r.tokret, !.up = r.up,
                                !.wrote = r.wrote, !.wrote_nf = r.wrote_nf,
                                !.ret = <<r.from, r.to>>, !.aircraft = AC_dlh,
                                !.cache0 = cache, !.file0 = file,
                                !.route_out = routeOut, !.save_out = saveOut,
                                !.responded = TRUE,
                                !.flights = nearest(<<Flight(AC_dlh, r.callsign, r.from, r.to)>>,
                                                    NearestAirplanesLive)]
  /\ UNCHANGED <<now, pc, route_cache, aircraft_list, nearby_flights, nreq, updated,
                 feed_records, before_store, fetched>>

NextLive ==
  \/ Tick
  \/ ObserveAircraft

\* Time passes, and the aircraft keeps being observed: a request is always
\* possible, so weak fairness of the request is that one is served again and
\* again.
SpecLive ==
  Init /\ [][NextLive]_vars /\ WF_vars(Tick) /\ []<><<ev'.op = "observe">>_vars

\* -------------------------------------------------- one request on the clock
\* One nearest-flights request in the sync worker 1, started at time 0, with
\* the time its upstream calls take.  Every requests call has timeout=10: a
\* call that ends in an exception answers at once (connection refused) or
\* after 10 s (timeout); the other answers take no time here.  The aircraft
\* of the snapshot have neither a callsign nor a registration, so nothing is
\* cached for them and each one is looked up.  gunicorn's arbiter kills a
\* sync worker that has been busy with one request for more than `timeout`
\* seconds; the client of that request gets no response.
Delays(asked, out) == IF asked /\ out.kind = "exception" THEN {0, RequestTimeout} ELSE {0}

SlowRouteOutcomes ==
  {o \in RouteOutcomes : o.kind = "exception" \/ (o.kind = "http" /\ o.status = 404)}

StartTimedRequest ==
  /\ pc[1] = "idle" /\ nreq = 0 /\ now = 0
  /\ nreq' = nreq + 1
  /\ \E config \in {c \in Configs : c.enabled /\ c.cred # NoCred /\ c.cache_days = 1},
        len \in 0..MaxSlowSnapshot :
       /\ pc' = [pc EXCEPT ![1] = "loop"]
       /\ route_cache' = [route_cache EXCEPT ![1] = load_flight_routes_cache(file)]
       /\ cfg' = [cfg EXCEPT ![1] = config]
       /\ aircraft_list' = [aircraft_list EXCEPT ![1] = len]
       /\ nearby_flights' = [nearby_flights EXCEPT ![1] = <<>>]
       /\ ev' = [NoEvent EXCEPT !.op = "start", !.w = 1, !.file0 = file,
                                !.feed = [kind |-> "http", status |-> 200,
                                          body |-> "json", len |-> len]]
  /\ fetched' = [fetched EXCEPT ![1] = {}]
  /\ UNCHANGED <<now, file, tok, nf_written, issued, updated, feed_records, before_store>>

\* One pass of the loop body, with the time the token request and the route
\* request took.
ResolveTimed ==
  /\ pc[1] = "loop"
  /\ aircraft_list[1] > 0
  /\ \E tokOut \in CycleTokenAnswers(will_fetch(AC_noreg, route_cache[1], cfg[1], now)
                                       /\ ~token_is_valid(tok[1], now), cfg[1].cred),
        routeOut \in (IF will_fetch(AC_noreg, route_cache[1], cfg[1], now)
                        THEN SlowRouteOutcomes ELSE {NoRouteAnswer}) :
     \E r \in {resolve(AC_noreg, route_cache[1], file, tok[1], cfg[1], now,
                       tokOut, routeOut, "ok")} :
     \E dtok \in Delays(r.tokreq, tokOut), droute \in Delays(r.fetch, routeOut) :
       /\ now' = now + dtok + droute
       /\ route_cache' = [route_cache EXCEPT ![1] = r.cache]
       /\ file' = r.file
       /\ tok' = [tok EXCEPT ![1] = r.tok]
       /\ nearby_flights' = [nearby_flights EXCEPT ![1] =
                               Append(@, Flight(AC_noreg, r.callsign, r.from, r.to))]
       /\ issued' = [issued EXCEPT ![1] = issued_after(@, r.tokreq, tokOut, now)]
       /\ fetched' = [fetched EXCEPT ![1] = IF r.fetch THEN @ \cup {r.callsign} ELSE @]
       /\ ev' = [NoEvent EXCEPT !.op = "resolve", !.w = 1,
                                !.blank = TRUE, !.key = r.callsign,
                                !.looked = r.looked, !.fetch = r.fetch,
                                !.tokcall = r.tokcall, !.tokreq = r.tokreq,
                                !.tokret = r.tokret, !.up = r.up,
                                !.wrote = r.wrote, !.wrote_nf = r.wrote_nf,
                                !.ret = <<r.from, r.to>>, !.aircraft = AC_noreg,
                                !.cache0 = route_cache[1], !.file0 = file,
                                !.route_out = routeOut, !.tok_out = tokOut, !.tok0 = tok[1]]
  /\ aircraft_list' = [aircraft_list EXCEPT ![1] = @ - 1]
  /\ UNCHANGED <<pc, cfg, nreq, nf_written, updated, feed_records, before_store>>

\* The arbiter kills the worker: the request ends without a response and the
\* worker's memory is gone.
KillWorker ==
  /\ pc[1] = "loop"
  /\ now > GunicornTimeout
  /\ pc' = [pc EXCEPT ![1] = "idle"]
  /\ route_cache' = [route_cache EXCEPT ![1] = EmptyCache]
  /\ cfg' = [cfg EXCEPT ![1] = NoConfig]
  /\ tok' = [tok EXCEPT ![1] = EmptyTokenCache]
  /\ aircraft_list' = [aircraft_list EXCEPT ![1] = 0]
  /\ nearby_flights' = [nearby_flights EXCEPT ![1] = <<>>]
  /\ fetched' = [fetched EXCEPT ![1] = {}]
  /\ ev' = [NoEvent EXCEPT !.op = "killed", !.w = 1, !.responded = FALSE]
  /\ UNCHANGED <<now, file, nreq, nf_written, issued, updated, feed_records, before_store>>

NextDeadline ==
  \/ StartTimedRequest
  \/ ResolveTimed
  \/ FinishNearestFlights(1)
  \/ KillWorker

SpecDeadline == Init /\ [][NextDeadline]_vars

\* ------------------------------------------------- the token functions alone
\* fetch_route_from_opensky called directly in worker w, with any
\* configuration.
CallFetchRoute(w) ==
  /\ pc[w] = "idle"
  /\ nreq' = nreq + 1
  /\ \E config \in Configs :
     \E tokOut \in TokenAnswers(config.enabled /\ config.cred # NoCred
                                 /\ ~token_is_valid(tok[w], now), config.cred),
        routeOut \in RouteAnswers(config.enabled) :
     \E fr \in {fetch_route_from_opensky(config, tok[w], now, tokOut, routeOut)} :
       /\ tok' = [tok EXCEPT ![w] = fr.tok]
       /\ issued' = [issued EXCEPT ![w] = issued_after(@, fr.tokreq, tokOut, now)]
       /\ ev' = [NoEvent EXCEPT !.op = "fetch", !.w = w, !.fetch = fr.fetch,
                                !.tokcall = fr.tokcall, !.tokreq = fr.tokreq,
                                !.tokret = fr.tokret, !.up = fr.route,
                                !.route_out = routeOut, !.issued0 = issued[w],
                                !.tok_out = tokOut, !.tok0 = tok[w],
                                !.cred = config.cred]
  /\ UNCHANGED <<now, file, pc, route_cache, cfg, aircraft_list, nearby_flights,
                 nf_written, updated, feed_records, before_store, fetched>>

\* The test endpoint and the route fetch, in either worker process, at any
\* time.
NextToken ==
  \/ Tick
  \/ \E w \in Workers : nreq < MaxTokenCalls /\ test_opensky_api(w)
  \/ \E w \in Workers : nreq < MaxTokenCalls /\ CallFetchRoute(w)

SpecToken == Init /\ [][NextToken]_vars

\* ------------------------------------------------- filter, sort and truncate
\* The three aggregators on one snapshot of the live feed, with the route
\* enrichment left out (OpenSky disabled, empty route cache).  A record of
\* the snapshot has lat and lon (<<>> when absent), its distance from the
\* center in 1/100 km (the feed's dst for airplanes.live, the haversine
\* result for OpenSky and AirLabs) and OpenSky's on_ground flag.
Providers == {"airplaneslive", "opensky", "airlabs"}

Obs(lat, lon, dst, on_ground) ==
  [lat |-> lat, lon |-> lon, dst |-> dst, on_ground |-> on_ground]

RankKinds ==
  { Obs(<<47>>, <<15>>, 306, FALSE),
    Obs(<<47>>, <<15>>, 314, FALSE),
    Obs(<<51>>, <<0>>, 120, FALSE),
    Obs(<<>>, <<15>>, 80, FALSE),
    Obs(<<47>>, <<15>>, 50, TRUE) }

\* The live feed comes to hold one more record.
FeedRecord ==
  /\ Len(feed_records) < MaxRankSnapshot
  /\ \E obs \in RankKinds : feed_records' = Append(feed_records, obs)
  /\ ev' = NoEvent
  /\ UNCHANGED <<now, file, tok, pc, route_cache, cfg, aircraft_list, nearby_flights,
                 nreq, nf_written, issued, updated, before_store, fetched>>

\* The record passes the `continue` checks at the head of the loop body.
keeps(provider, obs) ==
  CASE provider = "airplaneslive" -> ~(PyNot(obs.lat) \/ PyNot(obs.lon))
    [] provider = "opensky" -> ~(PyNot(obs.lon) \/ PyNot(obs.lat)) /\ ~obs.on_ground
    [] provider = "airlabs" -> ~(PyNot(obs.lat) \/ PyNot(obs.lon))

\* nearby_flights after the loop: one flight per record kept, in feed order;
\* idx is the record the flight was made from.
kept_flights(provider, snapshot) ==
  LET idxs == SelectSeq([i \in 1..Len(snapshot) |-> i],
                        LAMBDA i : keeps(provider, snapshot[i]))
  IN [j \in 1..Len(idxs) |->
        [idx |-> idxs[j], distance |-> Round1(snapshot[idxs[j]].dst)]]

\* nearby_flights[:4] for airplanes.live, [:5] for OpenSky and AirLabs.
limit_of(provider) ==
  IF provider = "airplaneslive" THEN NearestAirplanesLive ELSE NearestOther

\* A nearest-flights request served by the aggregator of `provider` while
\* the feed holds feed_records.
RankSnapshot(provider) ==
  /\ ev' = [NoEvent EXCEPT !.op = "rank", !.provider = provider,
                           !.snapshot = feed_records, !.responded = TRUE,
                           !.flights = nearest(kept_flights(provider, feed_records),
                                               limit_of(provider))]
  /\ UNCHANGED <<now, file, tok, pc, route_cache, cfg, aircraft_list, nearby_flights,
                 nreq, nf_written, issued, updated, feed_records, before_store, fetched>>

NextRank ==
  \/ FeedRecord
  \/ \E provider \in Providers : RankSnapshot(provider)

SpecRank == Init /\ [][NextRank]_vars

\* ================================================================ properties
\* What the last step, a resolution of one aircraft, started from and did.
Resolved == ev.op = "resolve"
SuppressWindow == SuppressHours * HourSeconds

\* The aircraft of the last resolution has a callsign of its own and an ICAO24.
HasCallsignAndHex == ~ev.blank /\ Truthy(ev.aircraft.hex)

\* The cache the handler had loaded holds nothing for the key, neither under
\* the key itself nor under its airline prefix.
NoEntryBefore ==
  /\ ev.key \notin DOMAIN ev.cache0
  /\ airline_code(ev.key) \notin DOMAIN ev.cache0

\* The flight-history API answered 200 with a list whose last record is rec.
UpstreamReturned(rec) ==
  /\ ev.fetch
  /\ ev.route_out.kind = "http" /\ ev.route_out.status = 200
  /\ ev.route_out.flights # <<>>
  /\ ev.route_out.flights[Len(ev.route_out.flights)] = rec

\* The flight-history API was asked and gave no route: an error, no answer,
\* an empty list, or a last record without airports.
UpstreamNoData ==
  /\ ev.fetch
  /\ \/ ev.route_out.kind # "http"
     \/ ev.route_out.status # 200
     \/ ev.route_out.flights = <<>>
     \/ LET rec == ev.route_out.flights[Len(ev.route_out.flights)]
        IN Falsy(rec.estDepartureAirport) /\ Falsy(rec.estArrivalAirport)

\* The handler's cache dict held, before the last resolution, a not_found
\* entry for the key that is younger than 24 hours.
NotFoundEntryBefore ==
  /\ ev.key \in DOMAIN ev.cache0
  /\ ev.cache0[ev.key].not_found
  /\ ev.cache0[ev.key].last_seen.ok
  /\ now - ev.cache0[ev.key].last_seen.t < SuppressWindow

\* C1 (as stated): after a resolution wrote a not_found entry for a callsign,
\* every resolution of that callsign that starts later and less than 24 hours
\* after that write performs no upstream call and returns ("", "").
C1_Original ==
  (/\ Resolved
   /\ nf_written.set /\ nf_written.key = ev.key
   /\ nf_written.at < now /\ now - nf_written.at < SuppressWindow)
  => (~ev.fetch /\ ev.ret = <<"", "">>)

\* C1 (amended): a resolution of an aircraft with a callsign and an ICAO24
\* that finds no cache entry and gets no data from upstream returns ("", "")
\* and writes a not_found entry stamped now into the handler's cache; and a
\* resolution whose handler's cache holds a not_found entry for the callsign
\* younger than 24 hours performs no upstream call and returns ("", "").
C1_NegativeCacheThrottle ==
  /\ (Resolved /\ HasCallsignAndHex /\ NoEntryBefore /\ UpstreamNoData)
       => /\ ev.ret = <<"", "">>
          /\ ev.key \in DOMAIN route_cache[ev.w]
          /\ route_cache[ev.w][ev.key] = Entry("", "", isoformat(now), TRUE)
  /\ (Resolved /\ NotFoundEntryBefore)
       => (~ev.fetch /\ ~ev.tokreq /\ ev.ret = <<"", "">>)

\* A later request resolves, within 24 hours, a callsign whose not_found
\* entry an earlier resolution wrote, for an aircraft that would be fetched.
C1_Witness ==
  /\ Resolved /\ HasCallsignAndHex /\ cfg[ev.w].enabled
  /\ nf_written.set /\ nf_written.key = ev.key /\ nf_written.at < now
  /\ NotFoundEntryBefore
  /\ ~ev.fetch /\ ev.ret = <<"", "">>

\* The entry the handler's cache holds for the key after the last resolution
\* is Entry(D, A, now, not_found = FALSE), the lookup reports it fresh under
\* the configured cache_days and it is not suppressed.
FreshEntryAfter(D, A) ==
  /\ ev.key \in DOMAIN route_cache[ev.w]
  /\ route_cache[ev.w][ev.key] = Entry(D, A, isoformat(now), FALSE)
  /\ get_route_from_cache(ev.key, route_cache[ev.w], cfg[ev.w].cache_days, now)
       = LookupResult(D, A, TRUE)
  /\ ~skip_lookup(ev.key, route_cache[ev.w], now)

\* C2 (as stated): for an aircraft with a callsign, an ICAO24 and no cache
\* entry, when upstream returns departure D and arrival A the resolution
\* returns (D, A) and the cache then holds a fresh, unsuppressed entry
\* from=D, to=A, not_found=false for the callsign.
C2_Original ==
  \A rec \in FlightRecords \cup {OldRecord} :
    (/\ Resolved /\ HasCallsignAndHex /\ NoEntryBefore
     /\ UpstreamReturned(rec)
     /\ Truthy(rec.estDepartureAirport) /\ Truthy(rec.estArrivalAirport))
    => /\ ev.ret = <<rec.estDepartureAirport, rec.estArrivalAirport>>
       /\ FreshEntryAfter(rec.estDepartureAirport, rec.estArrivalAirport)

\* C2 (amended): the same, provided the configured cache_days is at least 1.
C2_SuccessfulResolution ==
  \A rec \in FlightRecords \cup {OldRecord} :
    (/\ Resolved /\ HasCallsignAndHex /\ NoEntryBefore
     /\ cfg[ev.w].cache_days >= 1
     /\ UpstreamReturned(rec)
     /\ Truthy(rec.estDepartureAirport) /\ Truthy(rec.estArrivalAirport))
    => /\ ev.ret = <<rec.estDepartureAirport, rec.estArrivalAirport>>
       /\ FreshEntryAfter(rec.estDepartureAirport, rec.estArrivalAirport)

\* A resolution without a cache entry got the route EDDF -> LIML from a
\* list of two flight records, with cache_days 1.
C2_Witness ==
  /\ Resolved /\ HasCallsignAndHex /\ NoEntryBefore
  /\ cfg[ev.w].cache_days >= 1
  /\ UpstreamReturned(FullRecord) /\ Len(ev.route_out.flights) = 2
  /\ ev.ret = <<"EDDF", "LIML">>
  /\ FreshEntryAfter("EDDF", "LIML")

\* The live-feed request failed: no answer, a status outside 2xx, or a body
\* that is not JSON.
FeedFailed(feedOut) ==
  \/ feedOut.kind \in {"timeout", "connection_error"}
  \/ feedOut.kind = "http" /\ ~(200 <= feedOut.status /\ feedOut.status <= 299)
  \/ feedOut.kind = "http" /\ feedOut.body = "not_json"

\* C7: when the live-feed request fails, the aggregator answers with an empty
\* flight list, raises nothing, is done (no resolution follows, so no route
\* fetch) and leaves the cache file as it was.
C7_FeedFailureContained ==
  (ev.op = "start" /\ FeedFailed(ev.feed))
  => /\ ev.responded /\ ~ev.raised /\ ev.flights = <<>>
     /\ ~ev.fetch /\ ~ev.tokreq /\ ~ev.wrote
     /\ pc[ev.w] = "idle"
     /\ file = ev.file0

\* The feed answered 404 with a JSON body holding an aircraft, while the
\* cache file holds an entry; the handler answered with no flights.
C7_Witness ==
  /\ ev.op = "start"
  /\ ev.feed.kind = "http" /\ ev.feed.status = 404 /\ ev.feed.body = "json"
  /\ ev.feed.len > 0
  /\ ev.responded /\ ev.flights = <<>>
  /\ file # EmptyCache /\ file = ev.file0

\* C9 (as stated): when the trimmed callsign of an aircraft is empty, the
\* resolution returns ("", "") with no cache lookup under a substitute key,
\* no upstream route fetch and no cache write.
C9_EmptyCallsignShortCircuit ==
  (Resolved /\ ev.blank)
  => /\ ev.ret = <<"", "">>
     /\ ~ev.looked /\ ~ev.fetch /\ ~ev.wrote
     /\ route_cache[ev.w] = ev.cache0 /\ file = ev.file0

\* The lookup of the last resolution's key in the cache the handler held.
LookupBefore == get_route_from_cache(ev.key, ev.cache0, cfg[ev.w].cache_days, now)

\* C10: when the lookup returns a fresh entry with at least one airport, the
\* resolution returns the cached airports, sends no route fetch and no token
\* request, and leaves the handler's cache and the cache file unchanged.
C10_FreshHit ==
  (/\ Resolved
   /\ LookupBefore.valid
   /\ Truthy(LookupBefore.from) \/ Truthy(LookupBefore.to))
  => /\ ev.ret = <<LookupBefore.from, LookupBefore.to>>
     /\ ~ev.fetch /\ ~ev.tokcall /\ ~ev.tokreq /\ ~ev.wrote
     /\ route_cache[ev.w] = ev.cache0
     /\ file = ev.file0

\* A resolution found a fresh entry with a departure airport only, for an
\* aircraft with an ICAO24 while OpenSky is enabled, and returned it.
C10_Witness ==
  /\ Resolved /\ HasCallsignAndHex /\ cfg[ev.w].enabled
  /\ ev.key \in DOMAIN ev.cache0
  /\ LookupBefore = LookupResult("EDDF", "", TRUE)
  /\ ev.ret = <<"EDDF", "">>
  /\ ~ev.fetch

\* The last step was a direct lookup / a direct update of the cache.
LookedUp == ev.op = "lookup"
Updated == ev.op = "update" /\ ev.wrote

\* C4: a key is suppressed exactly when the cache holds an entry under that
\* very key whose not_found flag is set and whose last_seen is less than 24
\* hours old; and a key is suppressed right after a not_found write for it.
C4_SuppressionPredicate ==
  /\ LookedUp =>
       (ev.skip <=> /\ ev.key \in DOMAIN ev.cache0
                    /\ ev.cache0[ev.key].not_found
                    /\ now - ev.cache0[ev.key].last_seen.t < SuppressWindow)
  /\ (Updated /\ ev.wrote_nf) => skip_lookup(ev.key, route_cache[1], now)

\* A key whose not_found entry is exactly 24 hours old is looked up and is
\* not suppressed.
C4_Witness ==
  /\ LookedUp /\ ~ev.skip
  /\ ev.key \in DOMAIN ev.cache0
  /\ ev.cache0[ev.key].not_found
  /\ now - ev.cache0[ev.key].last_seen.t = SuppressWindow

\* C5: a lookup of a non-empty key with cache_days >= 1, made after the
\* update (key, from, to, not_found = false) and fewer than cache_days whole
\* days later, returns that from and to and reports the entry fresh.
C5_UpdateLookupRoundTrip ==
  (/\ LookedUp /\ ev.key # <<>>
   /\ updated.set /\ updated.key = ev.key /\ ~updated.not_found
   /\ ev.days >= 1
   /\ (now - updated.at) \div DaySeconds < ev.days)
  => (ev.ret = <<updated.from, updated.to>> /\ ev.valid)

\* A lookup with cache_days 7 one whole day after the update of its key
\* returns the route written.
C5_Witness ==
  /\ LookedUp /\ updated.set /\ updated.key = ev.key /\ ~updated.not_found
  /\ ev.days = DefaultCacheDays
  /\ now - updated.at >= DaySeconds
  /\ ev.ret = <<"KJFK", "EGLL">> /\ ev.valid

\* C6: a lookup of a key without an entry of its own returns nothing (empty
\* from and to, not fresh) unless the cache holds an entry under the key's
\* airline prefix, whose from and to it then returns; an entry under UAL123
\* is never returned for UAL9999.
C6_AirlinePrefixFallback ==
  /\ (LookedUp /\ ev.key \notin DOMAIN ev.cache0) =>
       IF ev.key # <<>> /\ airline_code(ev.key) \in DOMAIN ev.cache0
         THEN ev.ret = <<ev.cache0[airline_code(ev.key)].from,
                         ev.cache0[airline_code(ev.key)].to>>
         ELSE ev.ret = <<"", "">> /\ ~ev.valid
  /\ (LookedUp /\ ev.key = UAL9999 /\ UAL \notin DOMAIN ev.cache0) =>
       (ev.ret = <<"", "">> /\ ~ev.valid)

\* UAL9999 is looked up in a cache that holds a route under UAL123 only, and
\* nothing is returned.
C6_Witness ==
  /\ LookedUp /\ ev.key = UAL9999
  /\ DOMAIN ev.cache0 = {UAL123}
  /\ ev.cache0[UAL123].from = "KJFK"
  /\ ev.ret = <<"", "">> /\ ~ev.valid

\* C3: in one worker process, after the token endpoint answered 200 with a
\* token at time `at` and lifetime expires_in (1800 s when the answer states
\* none), a get_opensky_token call strictly before at + expires_in - 60 s
\* returns that token and sends no request, and a call at or after that
\* instant sends a token request.
C3_TokenReuse ==
  (ev.tokcall /\ ev.issued0.set /\ Truthy(ev.issued0.token))
  => IF now < ev.issued0.at + ev.issued0.expires_in - TokenMargin
       THEN ~ev.tokreq /\ ev.tokret = ev.issued0.token
       ELSE ev.tokreq

\* A worker that got a token with lifetime 90 s calls get_opensky_token
\* again exactly 30 s later, and a new request is sent.
C3_Witness ==
  /\ ev.tokcall /\ ev.issued0.set /\ Truthy(ev.issued0.token)
  /\ ev.issued0.expires_in = 90
  /\ now = ev.issued0.at + ev.issued0.expires_in - TokenMargin
  /\ ev.tokreq

\* The records of the ranked snapshot that carry a position (lat and lon).
PositionBearing ==
  {i \in 1..Len(ev.snapshot) : ev.snapshot[i].lat # <<>> /\ ev.snapshot[i].lon # <<>>}

Returned == {ev.flights[j].idx : j \in 1..Len(ev.flights)}

\* C8 (as stated): the list an aggregator returns is sorted ascending by
\* distance, has at most N elements (4 for airplanes.live, 5 for OpenSky and
\* AirLabs) and consists of the N nearest of the snapshot's position-bearing
\* aircraft: as many as there are up to N, and no omitted one strictly
\* nearer than a returned one.
C8_RankingAndBound ==
  ev.op = "rank" =>
    LET N == IF ev.provider = "airplaneslive" THEN 4 ELSE 5
    IN /\ \A j, k \in 1..Len(ev.flights) :
            j < k => ev.flights[j].distance <= ev.flights[k].distance
       /\ Len(ev.flights) <= N
       /\ Returned \subseteq PositionBearing
       /\ Len(ev.flights) = IF Cardinality(PositionBearing) < N
                              THEN Cardinality(PositionBearing) ELSE N
       /\ \A i \in PositionBearing \ Returned : \A r \in Returned :
            ~(ev.snapshot[i].dst < ev.snapshot[r].dst)

\* The from and to the cache held for the last resolution's key before the
\* step: those of its own entry, else those of the entry under its airline
\* prefix, else empty.
StoredBefore ==
  IF ev.key \in DOMAIN ev.cache0
    THEN <<ev.cache0[ev.key].from, ev.cache0[ev.key].to>>
  ELSE IF ev.key # <<>> /\ airline_code(ev.key) \in DOMAIN ev.cache0
    THEN <<ev.cache0[airline_code(ev.key)].from, ev.cache0[airline_code(ev.key)].to>>
  ELSE <<"", "">>

\* The key's own entry is older, in whole days, than cache_days allows.
StaleBefore ==
  /\ ev.key \in DOMAIN ev.cache0
  /\ (now - ev.cache0[ev.key].last_seen.t) \div DaySeconds >= cfg[ev.w].cache_days

\* C11: a resolution calls the upstream fetch only when the key is not
\* suppressed, the cached result is missing, stale or empty, OpenSky is
\* enabled and the aircraft has an ICAO24; with OpenSky disabled or without
\* an ICAO24 there is no upstream call, no token call and no cache write, and
\* the stored from and to are returned, stale or not.
C11_UpstreamGating ==
  /\ (Resolved /\ ev.fetch) =>
       /\ ~NotFoundEntryBefore
       /\ StoredBefore = <<"", "">> \/ StaleBefore
       /\ cfg[ev.w].enabled
       /\ Truthy(ev.aircraft.hex)
  /\ (Resolved /\ (~cfg[ev.w].enabled \/ Falsy(ev.aircraft.hex))) =>
       /\ ~ev.fetch /\ ~ev.tokcall /\ ~ev.wrote
       /\ route_cache[ev.w] = ev.cache0 /\ file = ev.file0
       /\ ev.ret = StoredBefore

\* With OpenSky disabled, a resolution returns the route of an entry that is
\* a whole day old under cache_days 1.
C11_Witness ==
  /\ Resolved /\ ~cfg[ev.w].enabled /\ Truthy(ev.aircraft.hex)
  /\ cfg[ev.w].cache_days = 1 /\ StaleBefore
  /\ ev.cache0[ev.key].from = "EDDF"
  /\ ev.ret = StoredBefore /\ ~ev.fetch

\* The last record of the list the flight-history API answered with.
LatestFlight == ev.route_out.flights[Len(ev.route_out.flights)]

\* The flight-history API answered 200 with a list whose last record names
\* at least one airport.
UpstreamSuccess ==
  /\ ev.fetch
  /\ ev.route_out.kind = "http" /\ ev.route_out.status = 200
  /\ ev.route_out.flights # <<>>
  /\ \/ LatestFlight.estDepartureAirport \notin {"", NoneVal}
     \/ LatestFlight.estArrivalAirport \notin {"", NoneVal}

\* The upstream value of a field where it is not empty, else the stored one.
Merged ==
  << IF LatestFlight.estDepartureAirport \notin {"", NoneVal}
       THEN LatestFlight.estDepartureAirport ELSE StoredBefore[1],
     IF LatestFlight.estArrivalAirport \notin {"", NoneVal}
       THEN LatestFlight.estArrivalAirport ELSE StoredBefore[2] >>

\* C12: when upstream names at least one airport, the resolution returns
\* (upstream_from or cached_from, upstream_to or cached_to) and writes exactly
\* that, with not_found = false and last_seen = now, under the key.
C12_MergeOnSuccess ==
  (Resolved /\ ev.key # <<>> /\ UpstreamSuccess)
  => /\ ev.ret = Merged
     /\ ev.key \in DOMAIN route_cache[ev.w]
     /\ route_cache[ev.w][ev.key] = Entry(Merged[1], Merged[2], isoformat(now), FALSE)

\* Upstream names the departure only while the stale entry names the arrival
\* only: the resolution returns and stores both.
C12_Witness ==
  /\ Resolved /\ UpstreamSuccess
  /\ LatestFlight = PartialRecord
  /\ StoredBefore = <<"", "LIML">>
  /\ ev.ret = <<"EDDF", "LIML">>
  /\ route_cache[ev.w][ev.key] = Entry("EDDF", "LIML", isoformat(now), FALSE)

\* The key under which the lookup of ev.key finds its entry: the key itself,
\* else its airline prefix; <<>> when it finds none.
FoundKey ==
  IF ev.key = <<>> THEN <<>>
  ELSE IF ev.key \in DOMAIN ev.cache0 THEN ev.key
  ELSE IF airline_code(ev.key) # <<>> /\ airline_code(ev.key) \in DOMAIN ev.cache0
    THEN airline_code(ev.key)
  ELSE <<>>

\* C13: for every entry a lookup finds, under the exact key or under the
\* airline prefix, whose last_seen parses, the returned fresh flag equals
\* ((now - last_seen) in whole days < the configured maximum age in days).
C13_FreshnessRule ==
  (LookedUp /\ FoundKey # <<>> /\ parses(ev.cache0[FoundKey].last_seen))
  => (ev.valid <=>
        (now - fromisoformat(ev.cache0[FoundKey].last_seen)) \div DaySeconds < ev.days)

\* The longest run of letters from the first character of s, cut to at most
\* 3 characters.
LeadingAlpha(s) ==
  LET n == CHOOSE k \in 0..3 :
             /\ k <= Len(s)
             /\ \A i \in 1..k : IsAlpha(s[i])
             /\ (k < 3 /\ k < Len(s)) => ~IsAlpha(s[k + 1])
  IN SubSeq(s, 1, n)

\* C14: a lookup of a key without an entry of its own falls back to the
\* entry under the key's leading alphabetic prefix (longest run of letters
\* from the first character, at most 3), so A1B23 falls back to A; with an
\* empty prefix, or no entry under it, it returns nothing.
C14_DerivedFallbackKey ==
  (LookedUp /\ ev.key # <<>> /\ ev.key \notin DOMAIN ev.cache0) =>
    IF LeadingAlpha(ev.key) # <<>> /\ LeadingAlpha(ev.key) \in DOMAIN ev.cache0
      THEN ev.ret = <<ev.cache0[LeadingAlpha(ev.key)].from,
                      ev.cache0[LeadingAlpha(ev.key)].to>>
      ELSE ev.ret = <<"", "">> /\ ~ev.valid

\* The flight-history API was asked and answered 401.
UpstreamUnauthorized ==
  /\ ev.op = "fetch" /\ ev.fetch
  /\ ev.route_out.kind = "http" /\ ev.route_out.status = 401

\* The token endpoint was asked and answered 401.
TokenUnauthorized ==
  /\ ev.tokreq
  /\ ev.tok_out.kind = "http" /\ ev.tok_out.status = 401

\* C15: after the flight-history API or the token endpoint answered 401, the
\* worker holds no token that get_opensky_token would return: its next call
\* sends a token request.
C15_AuthFailureResetsToken ==
  (UpstreamUnauthorized \/ TokenUnauthorized) => ~token_is_valid(tok[ev.w], now)

\* A token request was sent and did not come back with status 200.
RefreshFailed ==
  /\ ev.tokreq
  /\ ~(ev.tok_out.kind = "http" /\ ev.tok_out.status = 200)

\* C16: when the token request answers a non-200 status or fails at the
\* network level, get_opensky_token returns no token and does not raise, the
\* stored token and expires_at are what they were, and the worker still
\* holds no valid token, so its next call sends a request again.
C16_FailedTokenRefresh ==
  RefreshFailed =>
    /\ ev.tokret = NoneVal
    /\ ~ev.raised
    /\ tok[ev.w] = ev.tok0
    /\ ~token_is_valid(tok[ev.w], now)

\* A worker holding an expired token asks for a new one and the endpoint
\* answers 500: nothing is returned and the expired token stays stored.
C16_Witness ==
  /\ RefreshFailed /\ ev.tok_out.status = 500
  /\ Truthy(ev.tok0.token)
  /\ ev.tokret = NoneVal /\ tok[ev.w] = ev.tok0

\* Every mapping the program holds: the cache file and each handler's dict.
Mappings == {file} \cup {route_cache[w] : w \in Workers}

\* C17: in every cache state that resolutions (successful or failed) and
\* manual adds produce, in the file and in each handler's dict, an entry
\* whose not_found flag is set has an empty from and an empty to.
C17_NotFoundEntriesAreEmpty ==
  \A c \in Mappings : \A k \in DOMAIN c :
    c[k].not_found => (c[k].from = "" /\ c[k].to = "")

\* A failed refresh replaces a stale entry that named a departure airport:
\* the not_found entry written in its place names none.
C17_Witness ==
  /\ Resolved /\ ev.wrote_nf
  /\ ev.key \in DOMAIN ev.cache0 /\ ev.cache0[ev.key].from = "EDDF"
  /\ route_cache[ev.w][ev.key].not_found
  /\ route_cache[ev.w][ev.key].from = "" /\ route_cache[ev.w][ev.key].to = ""

\* update_route_cache was called with a non-empty key.
UpdateCalled == ev.op = "update" /\ ev.key # <<>>

\* The dict after the call: the entry of the key is exactly the arguments
\* with last_seen = now, every other entry is what it was, none is gone.
Overwritten ==
  /\ DOMAIN route_cache[ev.w] = DOMAIN ev.cache0 \cup {ev.key}
  /\ route_cache[ev.w][ev.key] = Entry(ev.ret[1], ev.ret[2], isoformat(now), ev.wrote_nf)
  /\ \A k \in DOMAIN ev.cache0 \ {ev.key} : route_cache[ev.w][k] = ev.cache0[k]

\* C18 (as stated): update with a non-empty key overwrites the key's entry,
\* leaves the others alone, and the stored mapping equals the in-memory
\* mapping afterwards.
C18_Original ==
  UpdateCalled => (Overwritten /\ file = route_cache[ev.w])

\* C18 (amended): update with a non-empty key overwrites the key's entry
\* with exactly the arguments and last_seen = now and leaves the others
\* alone; the stored mapping equals the in-memory mapping when the write
\* succeeds, is the previous stored mapping when the file cannot be opened,
\* and is lost (loads as empty) when the write fails after the open.
C18_UpdateOverwrites ==
  UpdateCalled =>
    /\ Overwritten
    /\ ev.save_out = "ok" => file = route_cache[ev.w]
    /\ ev.save_out = "open_failed" => file = ev.file0
    /\ ev.save_out = "write_failed" => file = EmptyCache

\* An update of UAL on a dict that holds UAL123 only: both entries are there
\* afterwards, UAL123's as it was, and the file holds the same two.
C18_Witness ==
  /\ UpdateCalled /\ ev.key = UAL /\ DOMAIN ev.cache0 = {UAL123}
  /\ ev.save_out = "ok"
  /\ route_cache[ev.w][UAL123] = ev.cache0[UAL123]
  /\ route_cache[ev.w][UAL].last_seen = isoformat(now)
  /\ file = route_cache[ev.w]

\* The resolution wrote to the cache and saving the file failed.
SaveFailed == Resolved /\ ev.wrote /\ ev.save_out # "ok"

\* C19: when saving the cache file fails during a resolution, nothing is
\* raised, the handler's dict holds the new entry, the resolution returns
\* the resolved route (the merged upstream route on success), the flight is
\* appended with it and the handler goes on with the loop.
C19_PersistenceFailureSwallowed ==
  SaveFailed =>
    /\ ~ev.raised
    /\ ev.key \in DOMAIN route_cache[ev.w]
    /\ route_cache[ev.w][ev.key] =
         (IF ev.wrote_nf THEN Entry("", "", isoformat(now), TRUE)
          ELSE Entry(ev.ret[1], ev.ret[2], isoformat(now), FALSE))
    /\ UpstreamSuccess => ev.ret = Merged
    /\ pc[ev.w] = "loop"
    /\ nearby_flights[ev.w] # <<>>
    /\ LET flight == nearby_flights[ev.w][Len(nearby_flights[ev.w])]
       IN flight.callsign = ev.key /\ <<flight.from, flight.to>> = ev.ret

\* The flight-history API names EDDF and LIML, the write of the cache file
\* fails after the open: the file is lost, the dict has the route and the
\* flight is appended with it.
C19_Witness ==
  /\ SaveFailed /\ ev.save_out = "write_failed" /\ UpstreamSuccess
  /\ ev.ret = <<"EDDF", "LIML">>
  /\ file = EmptyCache
  /\ route_cache[ev.w][ev.key].from = "EDDF"
  /\ pc[ev.w] = "loop"
  /\ nearby_flights[ev.w][Len(nearby_flights[ev.w])].to = "LIML"

\* The last step of the loop took an aircraft of the snapshot that has a
\* position (a lat and a lon).
LoopedOverPositioned ==
  /\ ev.op \in {"skip", "resolve"}
  /\ ev.aircraft.lat # <<>> /\ ev.aircraft.lon # <<>>

\* The flight appended last to the handler's list.
LastAppended == nearby_flights[ev.w][Len(nearby_flights[ev.w])]

\* The aircraft of the last step is in the list, with the route its
\* resolution returned, empty where none is known, and the loop goes on.
KeptWhateverTheOutcome ==
  /\ ev.op = "resolve" /\ ~ev.raised
  /\ nearby_flights[ev.w] # <<>>
  /\ LastAppended.hex = ev.aircraft.hex
  /\ LastAppended.callsign = callsign_of(ev.aircraft)
  /\ <<LastAppended.from, LastAppended.to>> = ev.ret
  /\ (StoredBefore = <<"", "">> /\ ~UpstreamSuccess) => ev.ret = <<"", "">>
  /\ pc[ev.w] = "loop"

\* C20: in the airplanes.live aggregator every aircraft of the snapshot that
\* has a position is in the list before truncation, whatever its route
\* resolution ended in, with empty from and to when no route is known, and
\* the loop goes on with the other aircraft.
C20_NoPerAircraftFailure ==
  LoopedOverPositioned => KeptWhateverTheOutcome

\* fetch_route_from_opensky was called on its own.
FetchCalled == ev.op = "fetch"

\* C21: one call of fetch_route_from_opensky sends at most one flight-history
\* request and at most one token request (none when the lookup is disabled),
\* goes on without a token when the token request fails, raises nothing, and
\* returns the airports of the last record of a 200 answer when at least one
\* of them is not empty, and (None, None) in every other case.
C21_SingleAttemptUniformFailure ==
  FetchCalled =>
    /\ ~ev.raised
    /\ ev.tokreq => (ev.fetch /\ ev.tokcall)
    /\ RefreshFailed => ev.tokret = NoneVal
    /\ ev.up = (IF UpstreamSuccess
                  THEN [dep |-> LatestFlight.estDepartureAirport,
                        arr |-> LatestFlight.estArrivalAirport]
                  ELSE NoRoute)

\* The API answers 200 with an older record naming a route and a last record
\* naming none: the call returns (None, None).
C21_Witness ==
  /\ FetchCalled /\ ev.fetch
  /\ ev.route_out.status = 200
  /\ ev.route_out.flights = <<OldRecord, EmptyRecord>>
  /\ ev.up = NoRoute

\* A store of worker ev.w has just been completed.
StoreCompleted == ev.op = "dump" /\ ev.save_out = "ok"

\* C22: a worker sets an entry in the snapshot it loaded, never in what the
\* file holds by then, and a completed store leaves in the file exactly the
\* storing worker's whole snapshot: whatever another worker stored after
\* that snapshot was loaded is gone (last writer wins).
C22_LastWriterWins ==
  /\ ev.op = "store" =>
       route_cache[ev.w] = SetEntry(ev.cache0, ev.key, Entry("KJFK", "EGLL", isoformat(now), FALSE))
  /\ StoreCompleted => file = route_cache[ev.w]

\* C28: a load that falls between the open and the end of the write of
\* another worker's store returns the mapping the file held before that
\* store or the mapping the store writes, never an empty or partial one.
C28_ReadsNeverTorn ==
  ev.op = "load" =>
    \A v \in Workers \ {ev.w} :
      pc[v] = "saving" => route_cache[ev.w] \in {before_store[v], route_cache[v]}

Observed == ev.op = "observe"

\* The cache file holds a not_found entry for DLH123 whose 24 hours end
\* within the time the model covers.
SuppressedInFile ==
  /\ DLH123 \in DOMAIN file
  /\ file[DLH123].not_found
  /\ fromisoformat(file[DLH123].last_seen) + SuppressWindow <= MaxTime

\* The cache the last request loaded held a not_found entry for the key that
\* was at least 24 hours old.
SuppressionOver ==
  /\ ev.key \in DOMAIN ev.cache0
  /\ ev.cache0[ev.key].not_found
  /\ now - fromisoformat(ev.cache0[ev.key].last_seen) >= SuppressWindow

\* A request asked upstream for the route of the observed aircraft at least
\* 24 hours after the entry the file holds, or held before, was written.
QueriedAgain == Observed /\ ev.fetch /\ SuppressionOver

RequestEnded ==
  \/ ev.op \in {"finish", "killed"}
  \/ ev.op = "start" /\ ev.feed_failed

\* C24: every nearest-flights request ends with a response, whatever the
\* live feed, the token endpoint, the flight-history API and the cache file
\* do, and nothing is raised out of the handler.
C24_GuaranteedResponse ==
  RequestEnded => (ev.responded /\ ~ev.raised)

\* C25 (as stated): a manual add with an empty callsign or with both airports
\* empty leaves the cache file unchanged; every accepted add leaves in the
\* file the entry (airports, last_seen = now, not_found = false) under the
\* upper-cased callsign, which is then not suppressed; and a resolution of
\* that callsign within the cache-days window of the add returns the manual
\* route without an upstream call.
ManualAdd == ev.op = "add"
Accepted == ManualAdd /\ ev.wrote
ManualEntry == Entry(updated.from, updated.to, isoformat(updated.at), FALSE)
WithinWindowOfAdd ==
  /\ Resolved /\ updated.set /\ updated.key = ev.key
  /\ TimedeltaDays(now - updated.at) < cfg[ev.w].cache_days
C25_Original ==
  /\ (ManualAdd /\ ~ev.wrote) => file = ev.file0
  /\ Accepted =>
       /\ ev.key = DLH123
       /\ Truthy(ev.ret[1]) \/ Truthy(ev.ret[2])
       /\ ev.key \in DOMAIN file
       /\ file[ev.key] = Entry(ev.ret[1], ev.ret[2], isoformat(now), FALSE)
       /\ ~skip_lookup(ev.key, file, now)
  /\ WithinWindowOfAdd =>
       (~ev.fetch /\ ev.ret = <<updated.from, updated.to>>)

\* C25 (amended): the same, for an add whose cache file write succeeded, and
\* for a resolution whose loaded cache holds the manual entry; an accepted
\* add whose write failed answers success and leaves the file without the
\* entry.
C25_ManualAdd ==
  /\ (ManualAdd /\ ~ev.wrote) => file = ev.file0
  /\ Accepted =>
       /\ ev.key = DLH123
       /\ Truthy(ev.ret[1]) \/ Truthy(ev.ret[2])
       /\ ev.responded
  /\ (Accepted /\ ev.save_out = "ok") =>
       /\ file = SetEntry(ev.file0, ev.key,
                          Entry(ev.ret[1], ev.ret[2], isoformat(now), FALSE))
       /\ ~skip_lookup(ev.key, file, now)
  /\ (WithinWindowOfAdd /\ ev.key \in DOMAIN ev.cache0 /\ ev.cache0[ev.key] = ManualEntry) =>
       (~ev.fetch /\ ev.ret = <<updated.from, updated.to>>)
C25_Witness ==
  /\ WithinWindowOfAdd /\ ev.key \in DOMAIN ev.cache0 /\ ev.cache0[ev.key] = ManualEntry
  /\ now > updated.at

\* C26: a lookup that finds, under the exact key or the airline prefix, an
\* entry whose last_seen is missing or does not parse returns the stored
\* from/to with fresh = true; the suppression check of a key whose own entry
\* has such a last_seen answers not suppressed, whatever its not_found flag;
\* neither raises.
FoundWithoutTimestamp ==
  /\ LookedUp /\ FoundKey # <<>>
  /\ ev.cache0[FoundKey].last_seen = NoTimestamp
C26_MalformedTimestamps ==
  /\ FoundWithoutTimestamp =>
       /\ ev.ret = <<ev.cache0[FoundKey].from, ev.cache0[FoundKey].to>>
       /\ ev.valid
       /\ ~ev.raised
  /\ (FoundWithoutTimestamp /\ FoundKey = ev.key) => ~ev.skip
C26_Witness ==
  /\ FoundWithoutTimestamp /\ FoundKey = ev.key
  /\ ev.cache0[ev.key].not_found
  /\ ev.days = 0

\* C27: when the cache holds, under the key of the resolved aircraft, a stale
\* entry that names a departure or an arrival airport, and the upstream fetch
\* of the resolution returns no data, the handler's cache and the cache file
\* still name an airport under that key afterwards.
KnownRouteStale ==
  /\ Resolved /\ StaleBefore
  /\ Truthy(ev.cache0[ev.key].from) \/ Truthy(ev.cache0[ev.key].to)
NamesAirport(cache, key) ==
  key \in DOMAIN cache /\ (Truthy(cache[key].from) \/ Truthy(cache[key].to))
C27_FailedRefreshKeepsRoute ==
  (KnownRouteStale /\ ev.fetch /\ ~UpstreamSuccess /\ ev.save_out = "ok") =>
    /\ NamesAirport(route_cache[ev.w], ev.key)
    /\ ev.file0 = ev.cache0 => NamesAirport(file, ev.key)

\* C29: every token that get_opensky_token(client_id, client_secret) returns
\* is the one the token endpoint issues for that very pair, and a call with
\* credentials the endpoint does not know returns no token.
TokenReturned == ev.tokcall /\ ev.tokret # NoneVal
C29_TokenMatchesCredentials ==
  TokenReturned =>
    /\ ev.cred \in ValidCreds
    /\ ev.tokret = TokenOf(ev.cred)

\* C30: within one cycle, a resolution of an aircraft whose callsign the
\* cycle has already fetched a route for makes no upstream route fetch,
\* whatever the configured cache_days.
SameCallsignAgain == Resolved /\ ev.key \in ev.fetched0
C30_OneFetchPerCallsign == SameCallsignAgain => ~ev.fetch
====
